---- MODULE Spec2Model ----
(***************************************************************************)
(* Trade execution and coordination subsystem of open-nof1:                *)
(*   - BinanceBroker.placeOrder, the protected-order protocol              *)
(*     (src/lib/broker/binance-broker.ts);                                 *)
(*   - placeOrderTool.execute, the agent/tool bridge                       *)
(*     (src/lib/agent/tools/place-order.tool.ts);                          *)
(*   - PositionManager (src/lib/position/position-manager.ts);             *)
(*   - Scheduler (src/unnamed/part_001).                                   *)
(* An async function is split at its awaits: one action per await, so      *)
(* that other callbacks of the event loop (timer ticks, signal handlers)   *)
(* interleave exactly where the runtime lets them.                         *)
(***************************************************************************)
EXTENDS Integers, Sequences, FiniteSets, TLC

\* ------------------------------------------------------------------ bounds
MaxAmount == 1          \* largest params.amount a caller passes
MaxPos == 2             \* largest net position the exchange lets an account hold
MaxCycles == 3          \* cycles the scheduler starts before the model stops ticking
MaxSyncCalls == 2       \* syncPositions / forceSync calls made outside execute
MaxTicks == 3           \* steps the clock advances before the model stops it
MaxRuns == 2            \* TradingAgent.run calls (cycles that may overlap)
MaxOpens == 2           \* opening execute calls that may be in flight together
MaxStarts == 2          \* calls of Scheduler.start() before the model stops making them
MaxBrokers == 3         \* broker instances constructed
MaxMockOrders == 2      \* orders the simulation broker takes before the model stops

\* ------------------------------------------------- optional values of JS
\* An optional field is <<>> when undefined and <<v>> when set.
None == <<>>
Some(v) == <<v>>

\* JS truthiness of an optional number: undefined and 0 are falsy.
TruthyNum(x) == x # None /\ x[1] # 0

\* JS truthiness of an optional boolean.
TruthyBool(x) == x # None /\ x[1]

\* ---------------------------------------------------------------- symbols
\* A symbol is the sequence of its parts around '/': "BTC" is <<"BTC">>,
\* "BTC/USDT" is <<"BTC", "USDT">>; includes('/') is Len > 1.
SymbolInputs == {<<"BTC">>, <<"BTC", "USDT">>}

normalizeSymbol(symbol) ==
  IF Len(symbol) > 1 THEN symbol ELSE symbol \o <<"USDT">>

NormSymbols == {normalizeSymbol(s) : s \in SymbolInputs}

Sides == {"buy", "sell"}

\* side === 'buy' ? 'sell' : 'buy'  (stopSide, profitSide, closeSide)
OppositeSide(side) == IF side = "buy" THEN "sell" ELSE "buy"

\* ------------------------------------------------------------ parameters
\* The OrderParams a caller of the broker passes. Two families keep the set
\* small: calls that vary the order and its protection with the amount
\* given, and calls that vary the sizing inputs (amount, cost, leverage).
ProtectionParams ==
  [symbol : SymbolInputs,
   side : Sides,
   type : {"market", "limit"},
   amount : {Some(a) : a \in 1..MaxAmount},
   cost : {None},
   price : {None, Some(100)},
   leverage : {None},
   stopLoss : {None, Some(0), Some(95)},
   takeProfit : {None, Some(0), Some(110)},
   reduceOnly : {None, Some(TRUE)}]

SizingParams ==
  [symbol : SymbolInputs,
   side : Sides,
   type : {"market"},
   amount : {None, Some(0)} \cup {Some(a) : a \in 1..MaxAmount},
   cost : {None, Some(100)},
   price : {None},
   leverage : {None, Some(1), Some(2)},
   stopLoss : {None, Some(95)},
   takeProfit : {None},
   reduceOnly : {None}]

OrderParamsSet == ProtectionParams \cup SizingParams

NoParams == [symbol |-> <<>>, side |-> "buy", type |-> "market", amount |-> None,
             cost |-> None, price |-> None, leverage |-> None, stopLoss |-> None,
             takeProfit |-> None, reduceOnly |-> None]

\* --------------------------------------------------------- program state
VARIABLES
  pc,                \* where the in-flight placeOrder call stands
  params,            \* OrderParams of the in-flight call
  symbol,            \* placeOrder's normalized symbol
  orderAmount,       \* placeOrder's orderAmount
  attempt,           \* loop variable of placeStopLoss / placeTakeProfit
  order,             \* the main order the exchange returned: None or <<id>>
  stopLossOrderId,   \* None or <<id>>
  takeProfitOrderId, \* None or <<id>>
  protectionFailed,
  result,            \* the OrderResult returned: None or <<record>>
  log,               \* what this call did, in order: exchange requests and sleeps
  position,          \* the exchange's net position per symbol (signed: long > 0)
  posAtCall,         \* the net position of the call's symbol when the call began
  toolPc,            \* where the in-flight placeOrderTool.execute stands
  toolArgs,          \* its arguments, as the LLM gave them
  toolResult,        \* what it returned: None or <<record>>
  pmPositions,       \* PositionManager.positions: symbol -> None or <<position>>
  lastSyncTime,      \* PositionManager.lastSyncTime
  caller,            \* the cycle whose agent made the tool call (0: none)
  isRunning,         \* Scheduler.isRunning
  intervalId,        \* Scheduler.intervalId: None or <<timer>>
  runCount,          \* Scheduler.runCount
  handlers,          \* SIGINT/SIGTERM handlers process.on has registered
  exited,            \* process.exit was called
  cycle,             \* each executeCycle call: where its agent.run stands
  guardIn,           \* the OrderParams of the last RiskGuard.validate call: None or <<record>>
  guardOut,          \* the ValidationResult it returned: None or <<record>>
  now,               \* Date.now()
  syncCalls,         \* the syncPositions / forceSync calls made outside execute
  agentRuns,         \* each TradingAgent.run call: where it stands
  auditCalls,        \* the sessions logSession was called with, by run and symbol index
  logFiles,          \* the log directory: the files written, by path
  dbRows,            \* the chat rows the repository has created
  mockPc,            \* where the in-flight MockBroker.placeOrder call stands
  mockParams,        \* its OrderParams
  mockResult,        \* the OrderResult it returned: None or <<record>>
  mockPositions,     \* MockBroker.mockPositions: symbol -> None or <<position>>
  mockBefore,        \* the symbol's entry when the order reached the position update
  mockFetched,       \* what getPositions returned since the order: None or <<set>>
  orderCounter,      \* MockBroker.orderCounter
  infoPc,            \* where the in-flight accountInfoTool.execute stands
  infoArgs,          \* its symbols argument
  infoAt,            \* the Date.now() its syncPositions read
  infoFetched,       \* its syncPositions went on to broker.getPositions
  infoBalance,       \* what fetchBalance resolved with: None or <<record>>
  infoPositions,     \* what getAccountInfo's getPositions returned: None or <<set>>
  infoAccount,       \* what broker.getAccountInfo returned: None or <<record>>
  infoResult,        \* what execute returned: None or <<record>>
  exLeverage,        \* the leverage in force on the exchange, per symbol
  launch,            \* the launcher's main(): its inputs and where it stands
  startCalls,        \* the calls of Scheduler.start() made so far
  admitIn,           \* an execute call checked on its own: its args and the cache it met
  admitOut,          \* what that call came to: its early result or its order
  openCalls,         \* the opening execute calls that may be in flight together
  evictIn,           \* a sync checked on its own: the cache, symbols and exchange it met
  evictOut,          \* the cache that sync left: None or <<cache>>
  sharedBroker,      \* shared-instances.ts sharedBroker: None or <<instance>>
  sharedPositionManager, \* sharedPositionManager: None or <<[broker |-> instance]>>
  brokersMade,       \* the broker instances constructed so far (instance n is the n-th)
  gotBroker,         \* what the last getSharedBroker() returned: None or <<instance>>
  gotManager,        \* what the last getSharedPositionManager() returned
  syncReads,         \* what the exchange answered each sync call: None or <<[seq, fetched]>>
  readCount,         \* the position reads the exchange has answered so far
  cacheFrom          \* the read (its seq) whose result the cache was last written from

brokerVars == <<pc, params, symbol, orderAmount, attempt, order, stopLossOrderId,
                takeProfitOrderId, protectionFailed, result, log, position, posAtCall>>

toolVars == <<toolPc, toolArgs, toolResult, pmPositions, lastSyncTime, caller>>

schedVars == <<isRunning, intervalId, runCount, handlers, exited, cycle>>

guardVars == <<guardIn, guardOut>>

\* The components a placeOrder call does not pass through.
syncVars == <<now, syncCalls>>

auditVars == <<agentRuns, auditCalls, logFiles, dbRows>>

mockVars == <<mockPc, mockParams, mockResult, mockPositions, mockBefore, mockFetched,
              orderCounter>>

infoVars == <<infoPc, infoArgs, infoAt, infoFetched, infoBalance, infoPositions, infoAccount,
              infoResult>>

\* The state of the tools and entry points around the trading loop.
exchangeVars == <<exLeverage>>

launchVars == <<launch, startCalls>>

admitVars == <<admitIn, admitOut>>

raceVars == <<openCalls>>

evictVars == <<evictIn, evictOut>>

\* The components checked on their own.
bridgeVars == <<sharedBroker, sharedPositionManager, brokersMade, gotBroker, gotManager>>

staleVars == <<syncReads, readCount, cacheFrom>>

unitVars == <<evictVars, bridgeVars, staleVars>>

appVars == <<infoVars, exchangeVars, launchVars, admitVars, raceVars, unitVars>>

libVars == <<guardVars, syncVars, auditVars, mockVars, appVars>>

vars == <<brokerVars, toolVars, schedVars, libVars>>

\* ------------------------------------------------------------- exchange
\* The exchange (this.exchange, a ccxt client) is the environment: every
\* request either resolves or throws, and an accepted order moves the net
\* position of a one-way futures account. A reduce-only order only ever
\* shrinks the position towards zero.
Min(a, b) == IF a < b THEN a ELSE b

Abs(n) == IF n < 0 THEN -n ELSE n

ExchangeFill(p, side, fill, reduceOnly) ==
  IF reduceOnly
    THEN IF side = "sell"
           THEN (IF p > 0 THEN p - Min(fill, p) ELSE p)
           ELSE (IF p < 0 THEN p + Min(fill, -p) ELSE p)
    ELSE IF side = "buy" THEN p + fill ELSE p - fill

\* What the exchange may fill of an accepted order at once: a market order
\* fills whole, a limit order fills any part.
Fills(type, amount) == IF type = "market" THEN {amount} ELSE 0..amount

\* The id the exchange gives the order it accepts next: ids are opaque and
\* distinct, here the rank of the order among those accepted in this call.
OrderKinds == {"main", "stopLoss", "takeProfit", "emergencyClose"}

NewOrderId(lg) ==
  1 + Cardinality({i \in 1..Len(lg) : lg[i].kind \in OrderKinds /\ lg[i].outcome = "ok"})

TickerPrices == {50, 100}

\* One entry of the call's log: a request to the exchange or a sleep.
\* outcome is "pending" from the moment the request is submitted (the sleep
\* is started) until it resolves ("ok") or throws ("failed").
Req(kind, sym, type, side, amount, price, stopPrice, reduceOnly) ==
  [kind |-> kind, symbol |-> sym, type |-> type, side |-> side, amount |-> amount,
   price |-> price, stopPrice |-> stopPrice, reduceOnly |-> reduceOnly,
   ms |-> 0, outcome |-> "pending"]

SleepEntry(ms) ==
  [kind |-> "sleep", symbol |-> <<>>, type |-> "", side |-> "", amount |-> 0,
   price |-> None, stopPrice |-> None, reduceOnly |-> FALSE, ms |-> ms,
   outcome |-> "pending"]

\* The pending request resolves or throws.
Settle(lg, ok) == [lg EXCEPT ![Len(lg)].outcome = IF ok THEN "ok" ELSE "failed"]

\* --------------------------------------------------------- BinanceBroker
maxRetries == 3

\* A backoff that waits one second whatever the attempt.
delayMsConstant(att) == 1000

\* const delayMs = attempt * 1000
delayMs(att) == att * 1000

\* this.exchange.setLeverage(Math.floor(leverage), normalized)
setLeverageRequest(sym, leverage) ==
  Req("setLeverage", normalizeSymbol(sym), "", "", leverage, None, None, FALSE)

\* this.exchange.setMarginMode(mode, normalized)
setMarginModeRequest(sym) ==
  Req("setMarginMode", normalizeSymbol(sym), "cross", "", 0, None, None, FALSE)

fetchTickerRequest(sym) == Req("fetchTicker", sym, "", "", 0, None, None, FALSE)

\* The main order: a limit order only when type is 'limit' and price is truthy.
mainOrderRequest(p, sym, amt) ==
  IF p.type = "limit" /\ TruthyNum(p.price)
    THEN Req("main", sym, "limit", p.side, amt, p.price, None, TruthyBool(p.reduceOnly))
    ELSE Req("main", sym, "market", p.side, amt, None, None, TruthyBool(p.reduceOnly))

placeStopLossRequest(sym, amount, stopPrice, side) ==
  Req("stopLoss", sym, "STOP_MARKET", OppositeSide(side), amount, None, Some(stopPrice), TRUE)

\* A take-profit order that is not reduce-only: it could open a position.
placeTakeProfitNotReduceOnly(sym, amount, profitPrice, side) ==
  Req("takeProfit", sym, "TAKE_PROFIT_MARKET", OppositeSide(side), amount, None,
      Some(profitPrice), FALSE)

placeTakeProfitRequest(sym, amount, profitPrice, side) ==
  Req("takeProfit", sym, "TAKE_PROFIT_MARKET", OppositeSide(side), amount, None,
      Some(profitPrice), TRUE)

\* An emergency close on the entry's own side: it would add to the position.
emergencyCloseSameSide(sym, amount, side) ==
  Req("emergencyClose", sym, "market", side, amount, None, None, TRUE)

emergencyCloseRequest(sym, amount, side) ==
  Req("emergencyClose", sym, "market", OppositeSide(side), amount, None, None, TRUE)

\* The error strings of an OrderResult, as the set of phrases they hold.
ErrSizing == [phrases |-> {"Either amount or (cost + leverage) must be specified"},
              symbol |-> None, orderId |-> None]

ErrExchange == [phrases |-> {"exchange error"}, symbol |-> None, orderId |-> None]

ErrClosed == [phrases |-> {"Position opened but protection orders failed",
                           "Position was closed immediately for safety"},
              symbol |-> None, orderId |-> None]

\* A failed emergency close reported without the CRITICAL marker.
ErrCriticalUnmarked(sym, ord) ==
  [phrases |-> {"without protection and emergency close failed",
                "MANUAL INTERVENTION REQUIRED"},
   symbol |-> Some(sym), orderId |-> ord]

ErrCritical(sym, ord) ==
  [phrases |-> {"CRITICAL", "without protection and emergency close failed",
                "MANUAL INTERVENTION REQUIRED"},
   symbol |-> Some(sym), orderId |-> ord]

Success(ord) == [success |-> TRUE, orderId |-> ord, error |-> None]

Failure(err) == [success |-> FALSE, orderId |-> None, error |-> Some(err)]

\* if (params.leverage && params.leverage > 1)
NeedsLeverage(p) == TruthyNum(p.leverage) /\ p.leverage[1] > 1

\* Calculate order amount: which branch the sizing takes.
Sizing(p) ==
  IF TruthyNum(p.amount) THEN "main"
  ELSE IF TruthyNum(p.cost) /\ TruthyNum(p.leverage) THEN "fetchTicker"
  ELSE "throw"

\* A broker that protects reduce-only orders too.
EntersProtectAlways(p) == TruthyNum(p.stopLoss) \/ TruthyNum(p.takeProfit)

\* if (!params.reduceOnly && (params.stopLoss || params.takeProfit))
EntersProtect(p) ==
  ~TruthyBool(p.reduceOnly) /\ (TruthyNum(p.stopLoss) \/ TruthyNum(p.takeProfit))

\* A broker that places the take-profit first.
AfterMainTakeProfitFirst(p) ==
  IF ~EntersProtect(p) THEN "returned"
  ELSE IF TruthyNum(p.takeProfit) THEN "takeProfit"
  ELSE "stopLoss"

\* Where placeOrder goes once the main order is accepted.
AfterMain(p) ==
  IF ~EntersProtect(p) THEN "returned"
  ELSE IF TruthyNum(p.stopLoss) THEN "stopLoss"
  ELSE "takeProfit"

\* A broker that goes on when the stop-loss could not be placed.
AfterStopLossIgnoresFailure(p, slId) ==
  IF TruthyNum(p.takeProfit) THEN "takeProfit" ELSE "returned"

\* Where placeOrder goes once placeStopLoss has returned slId
\* (protectionFailed = !stopLossOrderId).
AfterStopLoss(p, slId) ==
  IF TruthyNum(p.takeProfit) /\ TruthyNum(slId) THEN "takeProfit"
  ELSE IF ~TruthyNum(slId) THEN "emergencyClose"
  ELSE "returned"

\* A broker that treats a missing take-profit as a failed protection.
AfterTakeProfitCritical(failed, tpId) ==
  IF failed \/ ~TruthyNum(tpId) THEN "emergencyClose" ELSE "returned"

\* Where placeOrder goes once placeTakeProfit has returned tpId: a missing
\* take-profit is only warned about, protectionFailed alone decides.
AfterTakeProfit(failed, tpId) == IF failed THEN "emergencyClose" ELSE "returned"

\* The log once placeOrder moves to `label`: the request it submits there.
Submit(label, lg, p, sym, amt) ==
  CASE label = "main" -> Append(lg, mainOrderRequest(p, sym, amt))
    [] label = "stopLoss" ->
         Append(lg, placeStopLossRequest(sym, amt, p.stopLoss[1], p.side))
    [] label = "takeProfit" ->
         Append(lg, placeTakeProfitRequest(sym, amt, p.takeProfit[1], p.side))
    [] label = "emergencyClose" -> Append(lg, emergencyCloseRequest(sym, amt, p.side))
    [] label = "fetchTicker" -> Append(lg, fetchTickerRequest(sym))
    [] OTHER -> lg

\* placeOrder moves to `label` with log lg: it submits the request of that
\* label, or returns success when the label is "returned".
Proceed(label, lg, p, sym, amt, ord) ==
  /\ pc' = label
  /\ log' = Submit(label, lg, p, sym, amt)
  /\ result' = IF label = "returned" THEN Some(Success(ord)) ELSE None

\* The outer catch of placeOrder: return { success: false, error }.
Caught(lg, err) ==
  /\ pc' = "returned"
  /\ log' = lg
  /\ result' = Some(Failure(err))

\* Calculate order amount (lines 220-232) and, with an amount, submit the
\* main order.
EnterSizing(p, sym, lg) ==
  CASE Sizing(p) = "main" ->
         /\ orderAmount' = p.amount[1]
         /\ Proceed("main", lg, p, sym, p.amount[1], None)
    [] Sizing(p) = "fetchTicker" ->
         /\ orderAmount' = 0
         /\ Proceed("fetchTicker", lg, p, sym, 0, None)
    [] OTHER ->
         /\ orderAmount' = 0
         /\ Caught(lg, ErrSizing)

\* placeOrder(params) is called: everything up to its first await.
PlaceOrderCall(p) ==
  /\ pc = "idle"
  /\ params' = p
  /\ symbol' = normalizeSymbol(p.symbol)
  /\ posAtCall' = position[normalizeSymbol(p.symbol)]
  /\ attempt' = 0
  /\ order' = None
  /\ stopLossOrderId' = None
  /\ takeProfitOrderId' = None
  /\ protectionFailed' = FALSE
  /\ IF NeedsLeverage(p)
       THEN /\ pc' = "setLeverage"
            /\ log' = <<setLeverageRequest(normalizeSymbol(p.symbol), p.leverage[1])>>
            /\ result' = None
            /\ orderAmount' = 0
       ELSE EnterSizing(p, normalizeSymbol(p.symbol), <<>>)
  /\ UNCHANGED position

\* A setLeverage whose failure reaches the catch of placeOrder.
SetLeverageDoneAborts ==
  /\ ~exited
  /\ pc = "setLeverage"
  /\ UNCHANGED <<toolVars, schedVars, libVars>>
  /\ \/ /\ pc' = "setMarginMode"
        /\ log' = Append(Settle(log, TRUE), setMarginModeRequest(symbol))
        /\ UNCHANGED result
     \/ Caught(Settle(log, FALSE), ErrExchange)
  /\ UNCHANGED <<params, symbol, orderAmount, attempt, order, stopLossOrderId,
                 takeProfitOrderId, protectionFailed, position, posAtCall>>

\* await this.setLeverage(...): the exchange takes the leverage of the
\* request, or the request fails, which is only a warning.
SetLeverageDone ==
  /\ ~exited
  /\ pc = "setLeverage"
  /\ UNCHANGED <<toolVars, schedVars, guardVars, syncVars, auditVars, mockVars, infoVars,
                 launchVars, admitVars, raceVars, unitVars>>
  /\ \E ok \in BOOLEAN :
       /\ pc' = "setMarginMode"
       /\ log' = Append(Settle(log, ok), setMarginModeRequest(symbol))
       /\ exLeverage' = IF ok THEN [exLeverage EXCEPT ![symbol] = log[Len(log)].amount]
                               ELSE exLeverage
  /\ UNCHANGED <<params, symbol, orderAmount, attempt, order, stopLossOrderId,
                 takeProfitOrderId, protectionFailed, result, position, posAtCall>>

\* await this.setMarginMode(...): a failure is only a warning.
SetMarginModeDone ==
  /\ ~exited
  /\ pc = "setMarginMode"
  /\ UNCHANGED <<toolVars, schedVars, libVars>>
  /\ \E ok \in BOOLEAN : EnterSizing(params, symbol, Settle(log, ok))
  /\ UNCHANGED <<params, symbol, attempt, order, stopLossOrderId,
                 takeProfitOrderId, protectionFailed, position, posAtCall>>

\* await this.exchange.fetchTicker(symbol)
FetchTickerDone ==
  /\ ~exited
  /\ pc = "fetchTicker"
  /\ UNCHANGED <<toolVars, schedVars, libVars>>
  /\ \/ \E last \in TickerPrices :
          LET amt == (params.cost[1] * params.leverage[1]) \div last IN
          /\ orderAmount' = amt
          /\ Proceed("main", Settle(log, TRUE), params, symbol, amt, None)
     \/ /\ Caught(Settle(log, FALSE), ErrExchange)
        /\ UNCHANGED orderAmount
  /\ UNCHANGED <<params, symbol, attempt, order, stopLossOrderId,
                 takeProfitOrderId, protectionFailed, position, posAtCall>>

\* A broker that submits the main order again when the exchange refused it.
MainOrderDoneRetries ==
  /\ ~exited
  /\ pc = "main"
  /\ UNCHANGED <<toolVars, schedVars, libVars>>
  /\ \/ \E id \in {NewOrderId(log)}, fill \in Fills(log[Len(log)].type, orderAmount) :
          LET req == log[Len(log)]
              np == ExchangeFill(position[symbol], req.side, fill, req.reduceOnly) IN
          /\ Abs(np) <= MaxPos
          /\ position' = [position EXCEPT ![symbol] = np]
          /\ order' = Some(id)
          /\ attempt' = IF AfterMain(params) \in {"stopLoss", "takeProfit"} THEN 1 ELSE attempt
          /\ Proceed(AfterMain(params), Settle(log, TRUE), params, symbol, orderAmount,
                     Some(id))
     \/ /\ IF Cardinality({i \in 1..Len(log) : log[i].kind = "main"}) < maxRetries
             THEN Proceed("main", Settle(log, FALSE), params, symbol, orderAmount, None)
             ELSE Caught(Settle(log, FALSE), ErrExchange)
        /\ UNCHANGED <<position, order, attempt>>
  /\ UNCHANGED <<params, symbol, orderAmount, stopLossOrderId, takeProfitOrderId,
                 protectionFailed, posAtCall>>

\* await this.exchange.createOrder(...) of the main order
MainOrderDone ==
  /\ ~exited
  /\ pc = "main"
  /\ UNCHANGED <<toolVars, schedVars, libVars>>
  /\ \/ \E id \in {NewOrderId(log)}, fill \in Fills(log[Len(log)].type, orderAmount) :
          LET req == log[Len(log)]
              np == ExchangeFill(position[symbol], req.side, fill, req.reduceOnly) IN
          /\ Abs(np) <= MaxPos
          /\ position' = [position EXCEPT ![symbol] = np]
          /\ order' = Some(id)
          /\ attempt' = IF AfterMain(params) \in {"stopLoss", "takeProfit"} THEN 1 ELSE attempt
          /\ Proceed(AfterMain(params), Settle(log, TRUE), params, symbol, orderAmount,
                     Some(id))
     \/ /\ Caught(Settle(log, FALSE), ErrExchange)
        /\ UNCHANGED <<position, order, attempt>>
  /\ UNCHANGED <<params, symbol, orderAmount, stopLossOrderId, takeProfitOrderId,
                 protectionFailed, posAtCall>>

\* placeStopLoss: one createOrder of the retry loop resolves or throws.
PlaceStopLossDone ==
  /\ ~exited
  /\ pc = "stopLoss"
  /\ UNCHANGED <<toolVars, schedVars, libVars>>
  /\ \/ \E id \in {NewOrderId(log)} :
          /\ stopLossOrderId' = Some(id)
          /\ protectionFailed' = ~TruthyNum(Some(id))
          /\ attempt' = IF AfterStopLoss(params, Some(id)) = "takeProfit" THEN 1 ELSE attempt
          /\ Proceed(AfterStopLoss(params, Some(id)), Settle(log, TRUE), params, symbol,
                     orderAmount, order)
     \/ /\ attempt < maxRetries
        /\ pc' = "stopLossSleep"
        /\ log' = Append(Settle(log, FALSE), SleepEntry(delayMs(attempt)))
        /\ UNCHANGED <<stopLossOrderId, protectionFailed, attempt, result>>
     \/ /\ ~(attempt < maxRetries)
        /\ stopLossOrderId' = None
        /\ protectionFailed' = TRUE
        /\ Proceed(AfterStopLoss(params, None), Settle(log, FALSE), params, symbol,
                   orderAmount, order)
        /\ UNCHANGED attempt
  /\ UNCHANGED <<params, symbol, orderAmount, order, takeProfitOrderId, position,
                 posAtCall>>

\* placeStopLoss: await this.sleep(delayMs) ends, the loop goes round.
PlaceStopLossWake ==
  /\ ~exited
  /\ pc = "stopLossSleep"
  /\ UNCHANGED <<toolVars, schedVars, libVars>>
  /\ attempt' = attempt + 1
  /\ pc' = "stopLoss"
  /\ log' = Submit("stopLoss", Settle(log, TRUE), params, symbol, orderAmount)
  /\ UNCHANGED <<params, symbol, orderAmount, order, stopLossOrderId, takeProfitOrderId,
                 protectionFailed, result, position, posAtCall>>

\* A placeTakeProfit whose loop test lets a fourth attempt through.
PlaceTakeProfitDoneOnceMore ==
  /\ ~exited
  /\ pc = "takeProfit"
  /\ UNCHANGED <<toolVars, schedVars, libVars>>
  /\ \/ \E id \in {NewOrderId(log)} :
          /\ takeProfitOrderId' = Some(id)
          /\ Proceed(AfterTakeProfit(protectionFailed, Some(id)), Settle(log, TRUE), params, symbol,
                     orderAmount, order)
          /\ UNCHANGED attempt
     \/ /\ attempt <= maxRetries
        /\ pc' = "takeProfitSleep"
        /\ log' = Append(Settle(log, FALSE), SleepEntry(delayMs(attempt)))
        /\ UNCHANGED <<takeProfitOrderId, attempt, result>>
     \/ /\ ~(attempt <= maxRetries)
        /\ takeProfitOrderId' = None
        /\ Proceed(AfterTakeProfit(protectionFailed, None), Settle(log, FALSE), params, symbol,
                   orderAmount, order)
        /\ UNCHANGED attempt
  /\ UNCHANGED <<params, symbol, orderAmount, order, stopLossOrderId, protectionFailed,
                 position, posAtCall>>

\* placeTakeProfit: one createOrder of the retry loop resolves or throws.
PlaceTakeProfitDone ==
  /\ ~exited
  /\ pc = "takeProfit"
  /\ UNCHANGED <<toolVars, schedVars, libVars>>
  /\ \/ \E id \in {NewOrderId(log)} :
          /\ takeProfitOrderId' = Some(id)
          /\ Proceed(AfterTakeProfit(protectionFailed, Some(id)), Settle(log, TRUE), params, symbol,
                     orderAmount, order)
          /\ UNCHANGED attempt
     \/ /\ attempt < maxRetries
        /\ pc' = "takeProfitSleep"
        /\ log' = Append(Settle(log, FALSE), SleepEntry(delayMs(attempt)))
        /\ UNCHANGED <<takeProfitOrderId, attempt, result>>
     \/ /\ ~(attempt < maxRetries)
        /\ takeProfitOrderId' = None
        /\ Proceed(AfterTakeProfit(protectionFailed, None), Settle(log, FALSE), params, symbol,
                   orderAmount, order)
        /\ UNCHANGED attempt
  /\ UNCHANGED <<params, symbol, orderAmount, order, stopLossOrderId, protectionFailed,
                 position, posAtCall>>

\* placeTakeProfit: await this.sleep(delayMs) ends, the loop goes round.
PlaceTakeProfitWake ==
  /\ ~exited
  /\ pc = "takeProfitSleep"
  /\ UNCHANGED <<toolVars, schedVars, libVars>>
  /\ attempt' = attempt + 1
  /\ pc' = "takeProfit"
  /\ log' = Submit("takeProfit", Settle(log, TRUE), params, symbol, orderAmount)
  /\ UNCHANGED <<params, symbol, orderAmount, order, stopLossOrderId, takeProfitOrderId,
                 protectionFailed, result, position, posAtCall>>

\* emergencyClose: its createOrder resolves (true) or throws (false), and
\* placeOrder returns the failure of lines 310-320.
EmergencyCloseDone ==
  /\ ~exited
  /\ pc = "emergencyClose"
  /\ UNCHANGED <<toolVars, schedVars, libVars>>
  /\ \/ \E id \in {NewOrderId(log)} :
          LET req == log[Len(log)] IN
          /\ position' = [position EXCEPT ![symbol] =
                            ExchangeFill(position[symbol], req.side, req.amount,
                                         req.reduceOnly)]
          /\ Caught(Settle(log, TRUE), ErrClosed)
     \/ /\ Caught(Settle(log, FALSE), ErrCritical(symbol, order))
        /\ UNCHANGED position
  /\ UNCHANGED <<params, symbol, orderAmount, attempt, order, stopLossOrderId,
                 takeProfitOrderId, protectionFailed, posAtCall>>

\* The call is over: the broker's per-call state of the finished call is gone.
BrokerIdle ==
  /\ pc' = "idle"
  /\ params' = NoParams
  /\ symbol' = <<>>
  /\ orderAmount' = 0
  /\ attempt' = 0
  /\ order' = None
  /\ stopLossOrderId' = None
  /\ takeProfitOrderId' = None
  /\ protectionFailed' = FALSE
  /\ result' = None
  /\ log' = <<>>
  /\ posAtCall' = 0
  /\ UNCHANGED position

\* A caller other than the tool calls broker.placeOrder(p).
DirectPlaceOrder(p) ==
  /\ ~exited
  /\ toolPc = "idle"
  /\ p.symbol \in SymbolInputs
  /\ PlaceOrderCall(p)
  /\ UNCHANGED <<toolVars, schedVars, libVars>>

\* That caller takes the OrderResult.
DirectPlaceOrderReturn ==
  /\ ~exited
  /\ toolPc = "idle"
  /\ pc = "returned"
  /\ BrokerIdle
  /\ UNCHANGED <<toolVars, schedVars, libVars>>

\* ------------------------------------------------------------ RiskGuard
\* getRiskConfig() with no environment variable set.
symbolWhitelist == {<<"BTC", "USDT">>, <<"ETH", "USDT">>, <<"SOL", "USDT">>}

maxLeverage == 10

maxCostPerTrade == 100

\* A JavaScript number: an integer here, or NaN. Every comparison with NaN
\* is false.
Num(v) == [nan |-> FALSE, v |-> v]

NaN == [nan |-> TRUE, v |-> 0]

Lt(a, b) == ~a.nan /\ ~b.nan /\ a.v < b.v

Gt(a, b) == ~a.nan /\ ~b.nan /\ a.v > b.v

Le(a, b) == ~a.nan /\ ~b.nan /\ a.v <= b.v

\* RiskGuard.validate(params): the ValidationResult. The symbol is
\* normalized as the broker normalizes it (symbol.includes('/') ? symbol :
\* symbol + '/USDT').
validate(sym, cost, leverage) ==
  IF normalizeSymbol(sym) \notin symbolWhitelist
    THEN [allowed |-> FALSE, reason |-> "is not in whitelist"]
  ELSE IF Lt(leverage, Num(1)) \/ Gt(leverage, Num(maxLeverage))
    THEN [allowed |-> FALSE, reason |-> "Leverage exceeds limit"]
  ELSE IF Le(cost, Num(0)) \/ Gt(cost, Num(maxCostPerTrade))
    THEN [allowed |-> FALSE, reason |-> "Cost exceeds limit"]
  ELSE [allowed |-> TRUE, reason |-> ""]

\* The triples validate is called with.
GuardSymbols == {<<"BTC">>, <<"BTC", "USDT">>, <<"ETH">>, <<"DOGE">>, <<"DOGE", "USDT">>}

GuardCosts == {NaN} \cup {Num(v) : v \in {0 - 1, 0, 1, maxCostPerTrade, maxCostPerTrade + 1}}

GuardLeverages == {NaN} \cup {Num(v) : v \in {0, 1, maxLeverage, maxLeverage + 1}}

\* riskGuard.validate({symbol, cost, leverage}) is called and returns.
Validate(sym, cost, leverage) ==
  /\ guardIn' = Some([symbol |-> sym, cost |-> cost, leverage |-> leverage])
  /\ guardOut' = Some(validate(sym, cost, leverage))
  /\ UNCHANGED <<brokerVars, toolVars, schedVars, syncVars, auditVars, mockVars, appVars>>

\* ------------------------------------------------------ PositionManager
\* getPosition(symbol): the cached position or null (None).
getPosition(cache, sym) ==
  IF normalizeSymbol(sym) \in DOMAIN cache THEN cache[normalizeSymbol(sym)] ELSE None

getPositionCount(cache) == Cardinality({k \in DOMAIN cache : cache[k] # None})

\* A canOpenPosition that looks at the symbol only.
canOpenPositionSymbolOnly(cache, sym, maxPositions) == getPosition(cache, sym) = None

\* canOpenPosition(symbol, riskGuard, maxPositions)
canOpenPosition(cache, sym, maxPositions) ==
  /\ ~(getPositionCount(cache) >= maxPositions)
  /\ getPosition(cache, sym) = None

syncCooldown == 5000

\* syncPositions' cooldown test: if (now - this.lastSyncTime < this.syncCooldown) return
SyncSkips(t, last) == t - last < syncCooldown

\* BinanceBroker.getPositions(symbols) when the exchange answers: the
\* positions with contracts # 0 among the normalized symbols, or among all
\* symbols when none is given.
getPositions(pos, syms) ==
  {[symbol |-> k, side |-> IF pos[k] > 0 THEN "long" ELSE "short", amount |-> Abs(pos[k])] :
     k \in {n \in DOMAIN pos :
              /\ syms # {} => n \in {normalizeSymbol(x) : x \in syms}
              /\ pos[n] # 0}}

\* A sync that clears the whole cache whatever symbols it is given.
syncPositionsClearsAll(cache, syms, fetched) ==
  [k \in DOMAIN cache |->
     IF \E f \in fetched : f.symbol = k
       THEN Some([side |-> (CHOOSE f \in fetched : f.symbol = k).side,
                  amount |-> (CHOOSE f \in fetched : f.symbol = k).amount])
       ELSE None]

\* syncPositions(symbols) once the broker has returned `fetched`: evict the
\* given symbols (all of them when none is given), then insert what was
\* fetched.
syncPositions(cache, syms, fetched) ==
  [k \in DOMAIN cache |->
     IF \E f \in fetched : f.symbol = k
       THEN Some([side |-> (CHOOSE f \in fetched : f.symbol = k).side,
                  amount |-> (CHOOSE f \in fetched : f.symbol = k).amount])
       ELSE IF syms = {} \/ k \in {normalizeSymbol(x) : x \in syms} THEN None ELSE cache[k]]

\* The clock: Date.now() is far past the cooldown when the process starts
\* and advances in steps of half a cooldown.
StartTime == 2 * syncCooldown

TimeStep == syncCooldown \div 2

TimePasses ==
  /\ now < StartTime + MaxTicks * TimeStep
  /\ now' = now + TimeStep
  /\ UNCHANGED <<brokerVars, toolVars, schedVars, guardVars, syncCalls, auditVars, mockVars, appVars>>

\* The exchange account changes without an order of this process: a resting
\* stop order triggers, the position is liquidated or traded elsewhere.
ExchangeMoves(k, v) ==
  /\ position[k] # v
  /\ position' = [position EXCEPT ![k] = v]
  /\ UNCHANGED <<pc, params, symbol, orderAmount, attempt, order, stopLossOrderId,
                 takeProfitOrderId, protectionFailed, result, log, posAtCall>>
  /\ UNCHANGED <<toolVars, schedVars, libVars>>

\* The symbols argument of a sync call: undefined (all) or one symbol.
SyncArgs == {{}, {<<"BTC">>}}

NoSyncCall == [st |-> "notCalled", at |-> 0, force |-> FALSE, symbols |-> {}]

\* syncPositions(symbols) up to its await, as call number i: the cooldown
\* test returns at once or lets the call go on to broker.getPositions.
SyncStarts(i, syms, last, force) ==
  /\ syncCalls[i].st = "notCalled"
  /\ i > 1 => syncCalls[i - 1].st # "notCalled"
  /\ syncCalls' = [syncCalls EXCEPT ![i] =
                     [st |-> IF SyncSkips(now, last) THEN "skipped" ELSE "fetching",
                      at |-> now, force |-> force, symbols |-> syms]]
  /\ UNCHANGED <<brokerVars, toolPc, toolArgs, toolResult, pmPositions, caller,
                 schedVars, guardVars, now, auditVars, mockVars, appVars>>

\* positionManager.syncPositions(symbols) is called (by the account-info tool).
SyncPositionsCall(i, syms) ==
  /\ SyncStarts(i, syms, lastSyncTime, FALSE)
  /\ UNCHANGED lastSyncTime

\* positionManager.forceSync(symbols) is called: lastSyncTime = 0, then
\* syncPositions(symbols).
ForceSyncCall(i, syms) ==
  /\ lastSyncTime' = 0
  /\ SyncStarts(i, syms, 0, TRUE)

\* await this.broker.getPositions(symbols) of call i is over: the cache is
\* rewritten and lastSyncTime becomes the `now` the call read when it began.
SyncFetched(i) ==
  /\ syncCalls[i].st = "fetching"
  /\ \E ok \in BOOLEAN :
       pmPositions' = syncPositions(pmPositions, syncCalls[i].symbols,
                        IF ok THEN getPositions(position, syncCalls[i].symbols) ELSE {})
  /\ lastSyncTime' = syncCalls[i].at
  /\ syncCalls' = [syncCalls EXCEPT ![i].st = "fetched"]
  /\ UNCHANGED <<brokerVars, toolPc, toolArgs, toolResult, caller, schedVars, guardVars, now,
                 auditVars, mockVars, appVars>>

\* ------------------------------------------------------- placeOrderTool
ToolSymbols == SymbolInputs \cup {<<"DOGE", "USDT">>}

Actions == {"open_long", "close_long", "open_short", "close_short"}

ToolArgsSet ==
  [symbol : ToolSymbols,
   action : Actions,
   cost : {None, Some(100), Some(200)},
   leverage : {None, Some(2)},
   stopLoss : {None, Some(95)},
   takeProfit : {None, Some(110)}]

NoToolArgs == [symbol |-> <<>>, action |-> "", cost |-> None, leverage |-> None,
               stopLoss |-> None, takeProfit |-> None]

IsOpen(action) == action = "open_long" \/ action = "open_short"

\* The side of the position a close action closes.
ClosedSide(action) == IF action = "close_long" THEN "long" ELSE "short"

\* error: `No long position found for ${symbol}` / `No short position found
\* for ${symbol}`, the symbol being the call's own argument.
NoPositionFound(action) ==
  IF action = "close_long" THEN "No long position found" ELSE "No short position found"

\* An execute that closes whatever position the cache holds for the symbol.
ToolRejectAbsentOnly(a, cache) ==
  IF IsOpen(a.action)
    THEN IF ~TruthyNum(a.cost)
           THEN Some([success |-> FALSE, rejected |-> FALSE,
                      error |-> "Cost is required for opening positions"])
         ELSE IF ~TruthyNum(a.leverage)
           THEN Some([success |-> FALSE, rejected |-> FALSE,
                      error |-> "Leverage is required for opening positions"])
         ELSE IF ~validate(a.symbol, Num(a.cost[1]), Num(a.leverage[1])).allowed
           THEN Some([success |-> FALSE, rejected |-> TRUE, error |-> "Risk check failed"])
         ELSE IF ~canOpenPosition(cache, a.symbol, 5)
           THEN Some([success |-> FALSE, rejected |-> FALSE,
                      error |-> "Cannot open position"])
         ELSE None
    ELSE IF getPosition(cache, a.symbol) = None
           THEN Some([success |-> FALSE, rejected |-> FALSE,
                      error |-> NoPositionFound(a.action)])
         ELSE None

\* An execute whose risk check looks at the whitelist only.
ToolRejectWhitelistOnly(a, cache) ==
  IF IsOpen(a.action) /\ normalizeSymbol(a.symbol) \notin symbolWhitelist
    THEN Some([success |-> FALSE, rejected |-> TRUE, error |-> "Risk check failed"])
  ELSE IF IsOpen(a.action) /\ TruthyNum(a.cost) /\ TruthyNum(a.leverage)
          /\ canOpenPosition(cache, a.symbol, 5)
    THEN None
  ELSE Some([success |-> FALSE, rejected |-> FALSE, error |-> "No position found"])

\* What execute returns before any broker call, if anything: the
\* validation of an opening action, the position lookup of a closing one.
ToolReject(a, cache) ==
  IF IsOpen(a.action)
    THEN IF ~TruthyNum(a.cost)
           THEN Some([success |-> FALSE, rejected |-> FALSE,
                      error |-> "Cost is required for opening positions"])
         ELSE IF ~TruthyNum(a.leverage)
           THEN Some([success |-> FALSE, rejected |-> FALSE,
                      error |-> "Leverage is required for opening positions"])
         ELSE IF ~validate(a.symbol, Num(a.cost[1]), Num(a.leverage[1])).allowed
           THEN Some([success |-> FALSE, rejected |-> TRUE, error |-> "Risk check failed"])
         ELSE IF ~canOpenPosition(cache, a.symbol, 5)
           THEN Some([success |-> FALSE, rejected |-> FALSE,
                      error |-> "Cannot open position"])
         ELSE None
    ELSE IF getPosition(cache, a.symbol) = None
            \/ getPosition(cache, a.symbol)[1].side # ClosedSide(a.action)
           THEN Some([success |-> FALSE, rejected |-> FALSE,
                      error |-> NoPositionFound(a.action)])
         ELSE None

\* The OrderParams execute passes to broker.placeOrder for each action.
ToolOrderParams(a, cache) ==
  IF IsOpen(a.action)
    THEN [symbol |-> a.symbol,
          side |-> IF a.action = "open_long" THEN "buy" ELSE "sell",
          type |-> "market", amount |-> None, cost |-> a.cost, price |-> None,
          leverage |-> a.leverage, stopLoss |-> a.stopLoss,
          takeProfit |-> a.takeProfit, reduceOnly |-> None]
    ELSE [symbol |-> a.symbol,
          side |-> IF a.action = "close_long" THEN "sell" ELSE "buy",
          type |-> "market", amount |-> Some(getPosition(cache, a.symbol)[1].amount),
          cost |-> None, price |-> None, leverage |-> None, stopLoss |-> None,
          takeProfit |-> None, reduceOnly |-> Some(TRUE)]

\* execute(args) is called by the agent of cycle c (0: outside a cycle):
\* everything up to its first await.
ToolCall(a, c) ==
  /\ toolPc = "idle"
  /\ pc = "idle"
  /\ toolArgs' = a
  /\ caller' = c
  /\ IF ToolReject(a, pmPositions) # None
       THEN /\ toolPc' = "returned"
            /\ toolResult' = ToolReject(a, pmPositions)
            /\ UNCHANGED brokerVars
       ELSE /\ toolPc' = "placing"
            /\ toolResult' = None
            /\ PlaceOrderCall(ToolOrderParams(a, pmPositions))
  /\ UNCHANGED <<pmPositions, lastSyncTime>>

\* An execute that syncs only after a successful order.
ToolPlaceOrderReturnedSyncOnSuccess ==
  /\ ~exited
  /\ toolPc = "placing"
  /\ pc = "returned"
  /\ toolPc' = IF result[1].success THEN "syncing" ELSE "returned"
  /\ toolResult' = Some([success |-> result[1].success, rejected |-> FALSE,
                         error |-> IF result[1].error = None THEN "" ELSE "order error"])
  /\ lastSyncTime' = 0
  /\ BrokerIdle
  /\ UNCHANGED <<toolArgs, pmPositions, caller, schedVars, libVars>>

\* await broker.placeOrder(...) is over: execute keeps the OrderResult and
\* calls positionManager.forceSync([symbol]), which resets lastSyncTime.
ToolPlaceOrderReturned ==
  /\ ~exited
  /\ toolPc = "placing"
  /\ pc = "returned"
  /\ toolPc' = "syncing"
  /\ toolResult' = Some([success |-> result[1].success, rejected |-> FALSE,
                         error |-> IF result[1].error = None THEN "" ELSE "order error"])
  /\ lastSyncTime' = 0
  /\ BrokerIdle
  /\ UNCHANGED <<toolArgs, pmPositions, caller, schedVars, libVars>>

\* forceSync's syncPositions: past the cooldown test, the broker's
\* getPositions returns what the exchange holds, or [] when fetchPositions
\* threw; the cache is rewritten, lastSyncTime is stamped, execute returns.
ToolForceSyncDone ==
  /\ ~exited
  /\ toolPc = "syncing"
  /\ IF SyncSkips(now, lastSyncTime)
       THEN UNCHANGED <<pmPositions, lastSyncTime>>
       ELSE /\ \E ok \in BOOLEAN :
                 pmPositions' = syncPositions(pmPositions, {toolArgs.symbol},
                                  IF ok THEN getPositions(position, {toolArgs.symbol}) ELSE {})
            /\ lastSyncTime' = now
  /\ toolPc' = "returned"
  /\ UNCHANGED <<brokerVars, toolArgs, toolResult, caller, schedVars, libVars>>

\* The LLM driver takes the tool's result.
ToolReturn ==
  /\ ~exited
  /\ toolPc = "returned"
  /\ toolPc' = "idle"
  /\ toolArgs' = NoToolArgs
  /\ toolResult' = None
  /\ caller' = 0
  /\ UNCHANGED <<brokerVars, pmPositions, lastSyncTime, schedVars, libVars>>

\* The tool is called outside any scheduler cycle.
DirectToolCall(a) ==
  /\ ~exited
  /\ ToolCall(a, 0)
  /\ UNCHANGED <<schedVars, libVars>>

\* ------------------------------------------------------------ Scheduler
Cycles == 1..MaxCycles

\* executeCycle() up to its await: this.runCount++, then agent.run starts.
executeCycle ==
  /\ runCount' = runCount + 1
  /\ cycle' = [cycle EXCEPT ![runCount + 1] = "running"]

\* The body of Scheduler.start(): the timer setInterval returns is named
\* after the start() call that installed it.
start ==
  IF isRunning
    THEN UNCHANGED schedVars
    ELSE /\ runCount < MaxCycles
         /\ isRunning' = TRUE
         /\ executeCycle
         /\ intervalId' = Some(startCalls + 1)
         /\ handlers' = handlers + 1
         /\ UNCHANGED exited

\* A start() without its isRunning test.
StartUnguarded ==
  /\ ~exited
  /\ startCalls < MaxStarts
  /\ startCalls' = startCalls + 1
  /\ runCount < MaxCycles
  /\ isRunning' = TRUE
  /\ executeCycle
  /\ intervalId' = Some(startCalls + 1)
  /\ handlers' = handlers + 1
  /\ UNCHANGED <<exited, launch>>
  /\ UNCHANGED <<brokerVars, toolVars, guardVars, syncVars, auditVars, mockVars, infoVars,
                 exchangeVars, admitVars, raceVars, unitVars>>

\* Scheduler.start() is called.
Start ==
  /\ ~exited
  /\ startCalls < MaxStarts
  /\ startCalls' = startCalls + 1
  /\ start
  /\ UNCHANGED launch
  /\ UNCHANGED <<brokerVars, toolVars, guardVars, syncVars, auditVars, mockVars, infoVars,
                 exchangeVars, admitVars, raceVars, unitVars>>

\* The setInterval callback fires: this.executeCycle().
Tick ==
  /\ ~exited
  /\ intervalId # None
  /\ runCount < MaxCycles
  /\ executeCycle
  /\ UNCHANGED <<isRunning, intervalId, handlers, exited, brokerVars, toolVars, libVars>>

\* Scheduler.stop()
stop ==
  IF ~isRunning
    THEN UNCHANGED schedVars
    ELSE /\ intervalId' = None
         /\ isRunning' = FALSE
         /\ exited' = TRUE
         /\ UNCHANGED <<runCount, handlers, cycle>>

\* SIGINT or SIGTERM is delivered: the handler start() registered runs stop().
Signal ==
  /\ ~exited
  /\ handlers > 0
  /\ stop
  /\ UNCHANGED <<brokerVars, toolVars, libVars>>

\* The arguments the agent's LLM gives the tool within a cycle.
AgentToolArgs ==
  [symbol : {<<"BTC", "USDT">>},
   action : {"open_long", "close_long"},
   cost : {Some(100)},
   leverage : {Some(2)},
   stopLoss : {Some(95)},
   takeProfit : {None, Some(110)}]

\* Within agent.run of cycle c the LLM driver calls the placeOrder tool.
AgentToolCall(c, a) ==
  /\ ~exited
  /\ cycle[c] = "running"
  /\ ToolCall(a, c)
  /\ UNCHANGED <<schedVars, libVars>>

\* await this.agent.run(this.symbols) of cycle c resolves.
AgentRunReturns(c) ==
  /\ ~exited
  /\ cycle[c] = "running"
  /\ caller # c
  /\ cycle' = [cycle EXCEPT ![c] = "returned"]
  /\ UNCHANGED <<isRunning, intervalId, runCount, handlers, exited, brokerVars, toolVars, libVars>>

\* A scheduler that a cycle's exception stops.
AgentRunThrowsStops(c) ==
  /\ ~exited
  /\ cycle[c] = "running"
  /\ caller # c
  /\ cycle' = [cycle EXCEPT ![c] = "threw"]
  /\ intervalId' = None
  /\ isRunning' = FALSE
  /\ UNCHANGED <<runCount, handlers, exited, brokerVars, toolVars, libVars>>

\* await this.agent.run(this.symbols) of cycle c rejects: the catch logs it.
AgentRunThrows(c) ==
  /\ ~exited
  /\ cycle[c] = "running"
  /\ caller # c
  /\ cycle' = [cycle EXCEPT ![c] = "threw"]
  /\ UNCHANGED <<isRunning, intervalId, runCount, handlers, exited, brokerVars, toolVars, libVars>>

\* ------------------------------------------- TradingAgent, AuditLogger
symbolDelayMs == 1000

\* getRiskConfig().symbols with no environment variable set.
AgentSymbols == <<(<<"BTC", "USDT">>), (<<"ETH", "USDT">>)>>

Runs == 1..MaxRuns

NoSession == [symbol |-> <<>>, startTime |-> 0, reasoning |-> "", toolCalls |-> "",
              success |-> FALSE, error |-> None]

NoRun == [st |-> "notCalled", idx |-> 0, startTime |-> 0, began |-> 0, since |-> 0,
          outcomes |-> <<>>, attempts |-> <<>>, session |-> NoSession]

\* session.symbol.replace('/', '-'): the first '/' becomes '-', so the
\* first two parts are joined by '-' and the rest stay apart.
ReplaceFirstSlash(sym) ==
  IF Len(sym) >= 2
    THEN [dashed |-> SubSeq(sym, 1, 2), rest |-> SubSeq(sym, 3, Len(sym))]
    ELSE [dashed |-> sym, rest |-> <<>>]

MsPerDay == 86400000

\* new Date().toISOString().split('T')[0]: the UTC day of the instant t.
DateOf(t) == t \div MsPerDay

\* path.join(dayDir, filename) of logToFile, written at instant t.
FilePath(session, t) ==
  [dir |-> DateOf(t),
   file |-> [name |-> ReplaceFirstSlash(session.symbol), stamp |-> session.startTime]]

\* fs.writeFile(filepath, ...): the file is created, or replaced if it exists.
writeFile(files, path, content) ==
  {f \in files : f.path # path} \cup {[path |-> path, content |-> content]}

\* processSymbol(symbol) up to await generateText: startTime = Date.now().
ProcessSymbolStarts(r, i) ==
  agentRuns' = [agentRuns EXCEPT ![r].st = "generating", ![r].idx = i,
                                 ![r].startTime = now]

\* agent.run(symbols) is called as run r (a later cycle begins at a later
\* instant): the loop enters processSymbol for the first symbol.
AgentRun(r) ==
  /\ agentRuns[r].st = "notCalled"
  /\ r > 1 => (agentRuns[r - 1].st # "notCalled" /\ now > agentRuns[r - 1].began)
  /\ agentRuns' = [agentRuns EXCEPT ![r].st = "generating", ![r].idx = 1,
                                   ![r].startTime = now, ![r].began = now]
  /\ UNCHANGED <<brokerVars, toolVars, schedVars, guardVars, syncVars, mockVars, appVars,
                 auditCalls, logFiles, dbRows>>

\* agent.run(symbols) is called once the run before it has returned: the
\* cycle fits within the scheduler's interval.
AgentRunInTurn(r) ==
  /\ r > 1 => agentRuns[r - 1].st = "done"
  /\ AgentRun(r)

\* The session processSymbol builds, from the try block or from the catch.
Session(r, returned) ==
  [symbol |-> AgentSymbols[agentRuns[r].idx],
   startTime |-> agentRuns[r].startTime,
   reasoning |-> IF returned THEN "result.text" ELSE "Error occurred",
   toolCalls |-> IF returned THEN "result.toolCalls" ELSE "[]",
   success |-> returned,
   error |-> IF returned THEN None ELSE Some("error.message")]

\* A processSymbol whose catch does not reach the audit sink.
GenerateTextDoneSilentOnThrow(r, returned) ==
  /\ agentRuns[r].st = "generating"
  /\ agentRuns' = [agentRuns EXCEPT ![r].st = IF returned THEN "logToFile" ELSE "sleeping",
                     ![r].since = IF returned THEN @ ELSE now,
                     ![r].outcomes = Append(@, IF returned THEN "returned" ELSE "threw"),
                     ![r].session = Session(r, returned)]
  /\ auditCalls' = IF returned
                     THEN [auditCalls EXCEPT ![r][agentRuns[r].idx] =
                             Append(@, Session(r, returned))]
                     ELSE auditCalls
  /\ UNCHANGED <<brokerVars, toolVars, schedVars, guardVars, syncVars, mockVars, appVars, logFiles, dbRows>>

\* A processSymbol without its try/catch: a throwing LLM driver rejects
\* processSymbol and with it run, which processes no further symbol.
GenerateTextDoneRethrows(r, returned) ==
  /\ agentRuns[r].st = "generating"
  /\ agentRuns' = [agentRuns EXCEPT ![r].st = IF returned THEN "logToFile" ELSE "threw",
                     ![r].outcomes = Append(@, IF returned THEN "returned" ELSE "threw"),
                     ![r].session = Session(r, returned)]
  /\ auditCalls' = IF returned
                     THEN [auditCalls EXCEPT ![r][agentRuns[r].idx] =
                             Append(@, Session(r, returned))]
                     ELSE auditCalls
  /\ UNCHANGED <<brokerVars, toolVars, schedVars, guardVars, syncVars, mockVars, appVars, logFiles, dbRows>>

\* await generateText(...) is over: it returned or threw; processSymbol
\* builds the session and calls logger.logSession(session), which enters
\* logToFile.
GenerateTextDone(r, returned) ==
  /\ agentRuns[r].st = "generating"
  /\ agentRuns' = [agentRuns EXCEPT ![r].st = "logToFile",
                     ![r].outcomes = Append(@, IF returned THEN "returned" ELSE "threw"),
                     ![r].session = Session(r, returned)]
  /\ auditCalls' = [auditCalls EXCEPT ![r][agentRuns[r].idx] =
                      Append(@, Session(r, returned))]
  /\ UNCHANGED <<brokerVars, toolVars, schedVars, guardVars, syncVars, mockVars, appVars, logFiles, dbRows>>

\* A logSession that lets a failed file write escape: the relational write
\* is skipped.
LogToFileDoneThrows(r, ok) ==
  /\ agentRuns[r].st = "logToFile"
  /\ logFiles' = IF ok
                   THEN writeFile(logFiles, FilePath(agentRuns[r].session, now),
                                  [run |-> r, idx |-> agentRuns[r].idx,
                                   session |-> agentRuns[r].session])
                   ELSE logFiles
  /\ agentRuns' = [agentRuns EXCEPT ![r].st = IF ok THEN "logToDatabase" ELSE "sleeping",
                     ![r].since = now,
                     ![r].attempts = Append(@, [idx |-> agentRuns[r].idx,
                                                target |-> "file", ok |-> ok])]
  /\ UNCHANGED <<brokerVars, toolVars, schedVars, guardVars, syncVars, mockVars, appVars, auditCalls, dbRows>>

\* logToFile is over: mkdir and writeFile went through, or one of them threw
\* and the catch logged it. logSession goes on to logToDatabase (useDatabase
\* is true by default).
LogToFileDone(r, ok) ==
  /\ agentRuns[r].st = "logToFile"
  /\ logFiles' = IF ok
                   THEN writeFile(logFiles, FilePath(agentRuns[r].session, now),
                                  [run |-> r, idx |-> agentRuns[r].idx,
                                   session |-> agentRuns[r].session])
                   ELSE logFiles
  /\ agentRuns' = [agentRuns EXCEPT ![r].st = "logToDatabase",
                     ![r].attempts = Append(@, [idx |-> agentRuns[r].idx,
                                                target |-> "file", ok |-> ok])]
  /\ UNCHANGED <<brokerVars, toolVars, schedVars, guardVars, syncVars, mockVars, appVars, auditCalls, dbRows>>

\* logToDatabase is over: repository.saveTradingSession created the row, or
\* db.chat.create threw and the repository's catch logged it. logSession
\* and processSymbol return; run sleeps 1000 ms (symbols.length > 1).
LogToDatabaseDone(r, ok) ==
  /\ agentRuns[r].st = "logToDatabase"
  /\ dbRows' = IF ok
                 THEN dbRows \cup {[run |-> r, idx |-> agentRuns[r].idx,
                                    session |-> agentRuns[r].session]}
                 ELSE dbRows
  /\ agentRuns' = [agentRuns EXCEPT ![r].st = IF Len(AgentSymbols) > 1 THEN "sleeping"
                                              ELSE IF agentRuns[r].idx < Len(AgentSymbols)
                                                THEN "generating" ELSE "done",
                                   ![r].idx = IF Len(AgentSymbols) > 1 THEN @
                                              ELSE IF @ < Len(AgentSymbols) THEN @ + 1 ELSE @,
                                   ![r].startTime = IF Len(AgentSymbols) > 1 THEN @ ELSE now,
                                   ![r].since = now,
                                   ![r].attempts = Append(@, [idx |-> agentRuns[r].idx,
                                                              target |-> "database",
                                                              ok |-> ok])]
  /\ UNCHANGED <<brokerVars, toolVars, schedVars, guardVars, syncVars, mockVars, appVars, auditCalls, logFiles>>

\* await this.sleep(1000) is over: the loop enters processSymbol for the
\* next symbol, or run returns.
AgentSleepDone(r) ==
  /\ agentRuns[r].st = "sleeping"
  /\ now - agentRuns[r].since >= symbolDelayMs
  /\ IF agentRuns[r].idx < Len(AgentSymbols)
       THEN ProcessSymbolStarts(r, agentRuns[r].idx + 1)
       ELSE agentRuns' = [agentRuns EXCEPT ![r].st = "done"]
  /\ UNCHANGED <<brokerVars, toolVars, schedVars, guardVars, syncVars, mockVars, appVars,
                 auditCalls, logFiles, dbRows>>

\* ----------------------------------------------------------- MockBroker
\* The normalized symbols the simulation is asked about.
MockSymbols == {<<"BTC", "USDT">>, <<"ETH", "USDT">>}

\* getMockPrice(symbol): the listed price moved by a random volatility, in
\* the units of the exchange's ticker.
getMockPrice(sym) == TickerPrices

\* The OrderParams the simulation is called with: opens by cost and
\* leverage, and orders by amount, reduce-only or not.
MockParams ==
  [symbol : {<<"BTC">>, <<"BTC", "USDT">>, <<"ETH", "USDT">>},
   side : Sides,
   type : {"market"},
   amount : {None, Some(1)},
   cost : {None, Some(100)},
   price : {None},
   leverage : {None, Some(2)},
   stopLoss : {None, Some(95)},
   takeProfit : {None},
   reduceOnly : {None, Some(TRUE)}]

\* The OrderParams close_long / close_short build from the cached position
\* of a symbol (the cache holding what getPositions last returned).
MockCloseParams ==
  {ToolOrderParams([symbol |-> k, action |-> act, cost |-> None, leverage |-> None,
                    stopLoss |-> None, takeProfit |-> None], mockPositions) :
     k \in {m \in MockSymbols : mockPositions[m] # None},
     act \in {"close_long", "close_short"}}

\* MockBroker.placeOrder(params) up to its first await (sleep(200)).
MockPlaceOrderCall(p) ==
  /\ mockPc = "idle"
  /\ orderCounter <= MaxMockOrders
  /\ mockPc' = "placing"
  /\ mockParams' = p
  /\ mockResult' = None
  /\ mockBefore' = None
  /\ mockFetched' = None
  /\ UNCHANGED <<mockPositions, orderCounter>>
  /\ UNCHANGED <<brokerVars, toolVars, schedVars, guardVars, syncVars, auditVars, appVars>>

\* The position update of placeOrder: nothing for a reduce-only order; an
\* order against the existing position deletes it, an order along it leaves
\* it, and an order on a flat symbol opens a position.
mockUpdate(positions, p, sym, amt) ==
  IF TruthyBool(p.reduceOnly) THEN positions
  ELSE IF positions[sym] # None
    THEN IF \/ positions[sym][1].side = "long" /\ p.side = "sell"
            \/ positions[sym][1].side = "short" /\ p.side = "buy"
           THEN [positions EXCEPT ![sym] = None]
           ELSE positions
  ELSE [positions EXCEPT ![sym] =
          Some([side |-> IF p.side = "buy" THEN "long" ELSE "short", amount |-> amt])]

\* After sleep(200): the order amount is computed (or the call throws into
\* its catch), the order id is drawn, the position is updated, and the call
\* goes on to its simulated protection orders or returns.
MockOrderPlaced ==
  /\ mockPc = "placing"
  /\ LET sym == normalizeSymbol(mockParams.symbol)
     IN  IF Sizing(mockParams) = "throw"
           THEN /\ mockPc' = "returned"
                /\ mockResult' = Some(Failure(ErrSizing))
                /\ UNCHANGED <<mockPositions, mockBefore, orderCounter>>
           ELSE \E price \in getMockPrice(sym) :
                  /\ mockBefore' = mockPositions[sym]
                  /\ orderCounter' = orderCounter + 1
                  /\ mockPositions' =
                       mockUpdate(mockPositions, mockParams, sym,
                                  IF Sizing(mockParams) = "main"
                                    THEN mockParams.amount[1]
                                    ELSE (mockParams.cost[1] * mockParams.leverage[1])
                                           \div price)
                  /\ IF TruthyNum(mockParams.stopLoss) \/ TruthyNum(mockParams.takeProfit)
                       THEN mockPc' = "protecting" /\ mockResult' = None
                       ELSE /\ mockPc' = "returned"
                            /\ mockResult' = Some(Success(Some(orderCounter)))
  /\ UNCHANGED <<mockParams, mockFetched>>
  /\ UNCHANGED <<brokerVars, toolVars, schedVars, guardVars, syncVars, auditVars, appVars>>

\* The sleeps that stand for the stop-loss and take-profit orders are over:
\* placeOrder returns success.
MockProtectionDone ==
  /\ mockPc = "protecting"
  /\ mockPc' = "returned"
  /\ mockResult' = Some(Success(Some(orderCounter - 1)))
  /\ UNCHANGED <<mockParams, mockPositions, mockBefore, mockFetched, orderCounter>>
  /\ UNCHANGED <<brokerVars, toolVars, schedVars, guardVars, syncVars, auditVars, appVars>>

\* MockBroker.getPositions(symbols), called after the order has returned.
MockGetPositions(syms) ==
  /\ mockPc = "returned"
  /\ mockFetched' =
       Some({[symbol |-> k, side |-> mockPositions[k][1].side,
              amount |-> mockPositions[k][1].amount] :
               k \in {m \in MockSymbols :
                        /\ mockPositions[m] # None
                        /\ syms # {} => m \in {normalizeSymbol(x) : x \in syms}}})
  /\ UNCHANGED <<mockPc, mockParams, mockResult, mockPositions, mockBefore, orderCounter>>
  /\ UNCHANGED <<brokerVars, toolVars, schedVars, guardVars, syncVars, auditVars, appVars>>

\* The caller takes the OrderResult.
MockReturn ==
  /\ mockPc = "returned"
  /\ mockPc' = "idle"
  /\ UNCHANGED <<mockParams, mockResult, mockPositions, mockBefore, mockFetched, orderCounter>>
  /\ UNCHANGED <<brokerVars, toolVars, schedVars, guardVars, syncVars, auditVars, appVars>>

\* ------------------------------------------------------ accountInfoTool
\* What fetchBalance may resolve with: the free and used USDT of the account.
Balances == [free : {0, 100}, used : {0, 10}]

\* The exchange's unrealizedPnl of the position in symbol k: one unit per
\* contract held long, minus one per contract held short.
unrealizedPnl(pos, k) == pos[k]

\* BinanceBroker.getPositions(symbols): the exchange's answer filtered, or
\* [] from the catch when fetchPositions threw.
getPositionsCaught(ok, pos, syms) == IF ok THEN getPositions(pos, syms) ELSE {}

\* positions.reduce((sum, p) => sum + p.pnl, 0)
RECURSIVE totalPnL(_, _)
totalPnL(fetched, pos) ==
  IF fetched = {} THEN 0
  ELSE LET f == CHOOSE x \in fetched : TRUE
       IN  unrealizedPnl(pos, f.symbol) + totalPnL(fetched \ {f}, pos)

\* The snapshot the catch of getAccountInfo returns.
ZeroAccount ==
  [balance |-> 0, usedMargin |-> 0, availableMargin |-> 0, totalPnL |-> 0, totalMargin |-> 0]

\* What a call of BinanceBroker.getAccountInfo comes to: it returns `value`
\* or throws.
Resolves(v) == [threw |-> FALSE, value |-> v]

Rejects == [threw |-> TRUE, value |-> ZeroAccount]

\* A getAccountInfo without its try/catch: a failed fetchBalance throws.
getAccountInfoUncaught(balance, fetched, pos) ==
  IF balance = None
    THEN Rejects
    ELSE Resolves([balance |-> balance[1].free + balance[1].used + totalPnL(fetched, pos),
                   usedMargin |-> balance[1].used,
                   availableMargin |-> balance[1].free,
                   totalPnL |-> totalPnL(fetched, pos),
                   totalMargin |-> balance[1].used])

\* BinanceBroker.getAccountInfo(): balance is what fetchBalance resolved with
\* (None when it threw), fetched what this.getPositions() returned.
getAccountInfo(balance, fetched, pos) ==
  IF balance = None
    THEN Resolves(ZeroAccount)
    ELSE Resolves([balance |-> balance[1].free + balance[1].used + totalPnL(fetched, pos),
                   usedMargin |-> balance[1].used,
                   availableMargin |-> balance[1].free,
                   totalPnL |-> totalPnL(fetched, pos),
                   totalMargin |-> balance[1].used])

\* positionManager.getAllPositions()
getAllPositions(cache) ==
  {[symbol |-> k, side |-> cache[k][1].side, amount |-> cache[k][1].amount] :
     k \in {n \in DOMAIN cache : cache[n] # None}}

\* What execute returns once broker.getAccountInfo is over: the balance and
\* the cached positions, or the error of its catch.
accountInfoResult(account, cache) ==
  IF account.threw
    THEN [success |-> FALSE, balance |-> 0, positions |-> {}]
    ELSE [success |-> TRUE, balance |-> account.value.balance,
          positions |-> getAllPositions(cache)]

\* accountInfoTool.execute({symbols}) up to its first await: it calls
\* positionManager.syncPositions(symbols), whose cooldown test returns at
\* once or lets the call go on to broker.getPositions.
AccountInfoCall(syms) ==
  /\ infoPc = "idle"
  /\ infoArgs' = syms
  /\ infoAt' = now
  /\ infoFetched' = ~SyncSkips(now, lastSyncTime)
  /\ infoPc' = IF SyncSkips(now, lastSyncTime) THEN "fetchBalance" ELSE "syncing"
  /\ infoBalance' = None
  /\ infoPositions' = None
  /\ infoAccount' = None
  /\ infoResult' = None
  /\ UNCHANGED <<brokerVars, toolVars, schedVars, guardVars, syncVars, auditVars, mockVars, exchangeVars, launchVars,
                 admitVars, raceVars, unitVars>>

\* await this.broker.getPositions(symbols) of the tool's syncPositions is
\* over: the cache is rewritten and lastSyncTime stamped; execute goes on to
\* broker.getAccountInfo(), which awaits fetchBalance.
AccountInfoSynced ==
  /\ infoPc = "syncing"
  /\ \E ok \in BOOLEAN :
       pmPositions' = syncPositions(pmPositions, infoArgs,
                                    getPositionsCaught(ok, position, infoArgs))
  /\ lastSyncTime' = infoAt
  /\ infoPc' = "fetchBalance"
  /\ UNCHANGED <<infoArgs, infoAt, infoFetched, infoBalance, infoPositions, infoAccount,
                 infoResult>>
  /\ UNCHANGED <<brokerVars, toolPc, toolArgs, toolResult, caller, schedVars, guardVars,
                 syncVars, auditVars, mockVars, exchangeVars, launchVars,
                 admitVars, raceVars, unitVars>>

\* fetchBalance resolved: getAccountInfo goes on to this.getPositions().
AccountInfoBalanceFetched(bal) ==
  /\ infoPc = "fetchBalance"
  /\ infoBalance' = Some(bal)
  /\ infoPc' = "getPositions"
  /\ UNCHANGED <<infoArgs, infoAt, infoFetched, infoPositions, infoAccount, infoResult>>
  /\ UNCHANGED <<brokerVars, toolVars, schedVars, guardVars, syncVars, auditVars, mockVars, exchangeVars, launchVars,
                 admitVars, raceVars, unitVars>>

\* fetchBalance threw: getAccountInfo is over, and execute returns.
AccountInfoBalanceFailed ==
  /\ infoPc = "fetchBalance"
  /\ infoAccount' = Some(getAccountInfo(None, {}, position))
  /\ infoResult' = Some(accountInfoResult(getAccountInfo(None, {}, position), pmPositions))
  /\ infoPc' = "returned"
  /\ UNCHANGED <<infoArgs, infoAt, infoFetched, infoBalance, infoPositions>>
  /\ UNCHANGED <<brokerVars, toolVars, schedVars, guardVars, syncVars, auditVars, mockVars, exchangeVars, launchVars,
                 admitVars, raceVars, unitVars>>

\* this.getPositions() of getAccountInfo is over (fetchPositions resolved or
\* threw): getAccountInfo returns its snapshot and execute its result.
AccountInfoPositionsFetched(ok) ==
  /\ infoPc = "getPositions"
  /\ infoPositions' = Some([ok |-> ok, positions |-> getPositionsCaught(ok, position, {})])
  /\ infoAccount' =
       Some(getAccountInfo(infoBalance, getPositionsCaught(ok, position, {}), position))
  /\ infoResult' =
       Some(accountInfoResult(
              getAccountInfo(infoBalance, getPositionsCaught(ok, position, {}), position),
              pmPositions))
  /\ infoPc' = "returned"
  /\ UNCHANGED <<infoArgs, infoAt, infoFetched, infoBalance>>
  /\ UNCHANGED <<brokerVars, toolVars, schedVars, guardVars, syncVars, auditVars, mockVars, exchangeVars, launchVars,
                 admitVars, raceVars, unitVars>>

\* The agent takes the tool's result.
AccountInfoReturn ==
  /\ infoPc = "returned"
  /\ infoPc' = "idle"
  /\ UNCHANGED <<infoArgs, infoAt, infoFetched, infoBalance, infoPositions, infoAccount,
                 infoResult>>
  /\ UNCHANGED <<brokerVars, toolVars, schedVars, guardVars, syncVars, auditVars, mockVars, exchangeVars, launchVars,
                 admitVars, raceVars, unitVars>>

\* ------------------------------------------------------------ launcher
Credentials ==
  {"BINANCE_API_KEY", "BINANCE_API_SECRET", "DEEPSEEK_API_KEY", "OPENROUTER_API_KEY"}

\* getRiskConfig().mode: TRADING_MODE or 'paper'.
TradingModes == {"paper", "live"}

NoLaunch ==
  [pc |-> "notStarted", env |-> {}, dev |-> FALSE, once |-> FALSE, mode |-> "paper",
   broker |-> "", exitCode |-> None]

\* process.argv.includes('--dev') ? 'mock' : config.mode === 'paper' ? 'paper' : 'live'
brokerModeOf(dev, mode) == IF dev THEN "mock" ELSE IF mode = "paper" THEN "paper" ELSE "live"

\* The two credential checks of main() both pass.
CredentialsPass(env) ==
  /\ ~("BINANCE_API_KEY" \notin env \/ "BINANCE_API_SECRET" \notin env)
  /\ ~("DEEPSEEK_API_KEY" \notin env /\ "OPENROUTER_API_KEY" \notin env)

\* A launcher that checks the credentials in mock mode too.
MustCheckAlways(dev, mode) == TRUE

\* if (brokerMode !== 'mock')
MustCheck(dev, mode) == brokerModeOf(dev, mode) # "mock"

\* createBroker(mode)
createBroker(mode) == IF mode = "mock" THEN "MockBroker" ELSE "BinanceBroker"

\* main() of the launcher, run in a fresh process with the environment env,
\* the flags --dev and --once and TRADING_MODE mode, up to its first await
\* or to its end: the credential checks, the broker, and either the single
\* agent.run or scheduler.start().
Main(env, dev, once, mode) ==
  /\ launch.pc = "notStarted"
  /\ ~exited /\ ~isRunning /\ runCount = 0 /\ startCalls = 0
  /\ IF MustCheck(dev, mode) /\ ~CredentialsPass(env)
       THEN /\ launch' = [pc |-> "exited", env |-> env, dev |-> dev, once |-> once,
                          mode |-> mode, broker |-> "", exitCode |-> Some(1)]
            /\ exited' = TRUE
            /\ UNCHANGED <<isRunning, intervalId, runCount, handlers, cycle, startCalls>>
       ELSE IF dev \/ once
         THEN /\ launch' = [pc |-> "runOnce", env |-> env, dev |-> dev, once |-> once,
                            mode |-> mode,
                            broker |-> createBroker(brokerModeOf(dev, mode)),
                            exitCode |-> None]
              /\ UNCHANGED <<schedVars, startCalls>>
         ELSE /\ launch' = [pc |-> "scheduling", env |-> env, dev |-> dev, once |-> once,
                            mode |-> mode,
                            broker |-> createBroker(brokerModeOf(dev, mode)),
                            exitCode |-> None]
              /\ start
              /\ startCalls' = startCalls + 1
  /\ UNCHANGED <<brokerVars, toolVars, guardVars, syncVars, auditVars, mockVars, infoVars,
                 exchangeVars, admitVars, raceVars, unitVars>>

\* await agent.run(config.symbols) of the run-once mode is over:
\* process.exit(0).
RunOnceDone ==
  /\ launch.pc = "runOnce"
  /\ launch' = [launch EXCEPT !.pc = "exited", !.exitCode = Some(0)]
  /\ exited' = TRUE
  /\ UNCHANGED <<isRunning, intervalId, runCount, handlers, cycle, startCalls>>
  /\ UNCHANGED <<brokerVars, toolVars, guardVars, syncVars, auditVars, mockVars, infoVars,
                 exchangeVars, admitVars, raceVars, unitVars>>

\* ------------------------------------- execute calls in flight together
\* The opening calls the agents of overlapping cycles (or one LLM step with
\* several tool calls) make for BTC/USDT.
OpenArgs ==
  [symbol : SymbolInputs,
   action : {"open_long", "open_short"},
   cost : {Some(100)},
   leverage : {Some(2)},
   stopLoss : {None},
   takeProfit : {None}]

NoOpenCall == [st |-> "notCalled", args |-> NoToolArgs, seen |-> None, at |-> 0]

\* The contracts an accepted opening order of these calls fills.
OpenFill == 1

\* execute(a) is called as call i: the checks up to canOpenPosition, on the
\* cache as it is now; denied, it returns; admitted, it awaits
\* broker.placeOrder.
OpenCall(i, a) ==
  /\ openCalls[i].st = "notCalled"
  /\ i > 1 => openCalls[i - 1].st # "notCalled"
  /\ openCalls' = [openCalls EXCEPT ![i] =
                     [st |-> IF ToolReject(a, pmPositions) # None THEN "denied" ELSE "placing",
                      args |-> a,
                      seen |-> Some(getPosition(pmPositions, a.symbol)),
                      at |-> 0]]
  /\ UNCHANGED <<brokerVars, toolVars, schedVars, guardVars, syncVars, auditVars, mockVars,
                 infoVars, exchangeVars, launchVars, admitVars, unitVars>>

\* await broker.placeOrder(...) of call i is over: the exchange accepted the
\* order or the call failed; execute calls forceSync([symbol]), which resets
\* lastSyncTime, passes the cooldown test and awaits broker.getPositions.
OpenOrderDone(i) ==
  /\ openCalls[i].st = "placing"
  /\ \E ok \in BOOLEAN :
       LET k == normalizeSymbol(openCalls[i].args.symbol)
           np == ExchangeFill(position[k],
                              IF openCalls[i].args.action = "open_long" THEN "buy" ELSE "sell",
                              OpenFill, FALSE) IN
       position' = IF ok THEN [position EXCEPT ![k] = np] ELSE position
  /\ lastSyncTime' = 0
  /\ openCalls' = [openCalls EXCEPT ![i].st = "syncing", ![i].at = now]
  /\ UNCHANGED <<pc, params, symbol, orderAmount, attempt, order, stopLossOrderId,
                 takeProfitOrderId, protectionFailed, result, log, posAtCall>>
  /\ UNCHANGED <<toolPc, toolArgs, toolResult, pmPositions, caller>>
  /\ UNCHANGED <<schedVars, guardVars, syncVars, auditVars, mockVars,
                 infoVars, exchangeVars, launchVars, admitVars, unitVars>>

\* await this.broker.getPositions([symbol]) of call i's forceSync is over:
\* the cache is rewritten, lastSyncTime stamped, and execute returns.
OpenSyncDone(i) ==
  /\ openCalls[i].st = "syncing"
  /\ \E ok \in BOOLEAN :
       pmPositions' = syncPositions(pmPositions, {openCalls[i].args.symbol},
                        getPositionsCaught(ok, position, {openCalls[i].args.symbol}))
  /\ lastSyncTime' = openCalls[i].at
  /\ openCalls' = [openCalls EXCEPT ![i].st = "returned"]
  /\ UNCHANGED <<brokerVars, toolPc, toolArgs, toolResult, caller>>
  /\ UNCHANGED <<schedVars, guardVars, syncVars, auditVars, mockVars,
                 infoVars, exchangeVars, launchVars, admitVars, unitVars>>

\* ------------------------------------------- execute, before its await
\* The symbols the Position Manager's cache may hold a position for: one
\* more than maxPositions.
CacheSymbols ==
  {<<"BTC", "USDT">>, <<"ETH", "USDT">>, <<"SOL", "USDT">>, <<"BNB", "USDT">>,
   <<"XRP", "USDT">>, <<"DOGE", "USDT">>}

\* The caches over those symbols.
Caches == [CacheSymbols -> {None, Some([side |-> "long", amount |-> 1])}]

AdmitArgs ==
  [symbol : {<<"BTC">>, <<"ETH", "USDT">>},
   action : Actions,
   cost : {None, Some(100)},
   leverage : {Some(2)},
   stopLoss : {None},
   takeProfit : {None}]

\* execute(a) is called while the cache is `cache`: what it returns before
\* any await, or the OrderParams it passes to broker.placeOrder.
Admit(a, cache) ==
  /\ admitIn' = Some([args |-> a, cache |-> cache])
  /\ admitOut' = Some([result |-> ToolReject(a, cache),
                       order |-> IF ToolReject(a, cache) = None
                                   THEN Some(ToolOrderParams(a, cache))
                                   ELSE None])
  /\ UNCHANGED <<brokerVars, toolVars, schedVars, guardVars, syncVars, auditVars, mockVars,
                 infoVars, exchangeVars, launchVars, raceVars, unitVars>>

\* ------------------------------------------- syncPositions, on any cache
\* The symbols a sync is asked for: none, one, or two (one of them short).
EvictArgs == {{}, {<<"BTC">>}, {<<"BTC">>, <<"ETH", "USDT">>}}

EvictSymbols == {<<"BTC", "USDT">>, <<"ETH", "USDT">>, <<"SOL", "USDT">>}

\* The caches and the exchange accounts over those symbols.
EvictCaches == [EvictSymbols -> {None, Some([side |-> "long", amount |-> 2])}]

EvictAccounts == [EvictSymbols -> {0 - 1, 0, 1}]

\* syncPositions(syms) runs past the cooldown test while the cache is
\* `cache` and the exchange holds `pos`: broker.getPositions(syms) answers
\* (ok: fetchPositions resolved; else it threw and getPositions caught it),
\* the cache is evicted and filled.
Resync(cache, syms, pos, ok) ==
  /\ evictIn' = Some([cache |-> cache, symbols |-> syms, ok |-> ok,
                      fetched |-> getPositionsCaught(ok, pos, syms)])
  /\ evictOut' = Some(syncPositions(cache, syms, getPositionsCaught(ok, pos, syms)))
  /\ UNCHANGED <<brokerVars, toolVars, schedVars, guardVars, syncVars, auditVars, mockVars,
                 infoVars, exchangeVars, launchVars, admitVars, raceVars, bridgeVars,
                 staleVars>>

\* ------------------------------------- syncPositions, the broker throwing
\* A syncPositions whose catch stamps lastSyncTime as a success does.
SyncThrewStamps(i) ==
  /\ syncCalls[i].st = "fetching"
  /\ syncCalls' = [syncCalls EXCEPT ![i].st = "caught"]
  /\ lastSyncTime' = syncCalls[i].at
  /\ UNCHANGED <<brokerVars, toolPc, toolArgs, toolResult, pmPositions, caller, schedVars,
                 guardVars, now, auditVars, mockVars, appVars>>

\* await this.broker.getPositions(symbols) of call i rejects (a TradingBroker
\* whose getPositions throws): control goes to the catch, which logs; the
\* statements after the await never run, and the call resolves.
SyncThrew(i) ==
  /\ syncCalls[i].st = "fetching"
  /\ syncCalls' = [syncCalls EXCEPT ![i].st = "caught"]
  /\ UNCHANGED <<brokerVars, toolVars, schedVars, guardVars, now, auditVars, mockVars,
                 appVars>>

\* ------------------------------------------------------ shared instances
\* The frame of the shared-instance functions.
BridgeFrame ==
  UNCHANGED <<brokerVars, toolVars, schedVars, guardVars, syncVars, auditVars, mockVars,
              infoVars, exchangeVars, launchVars, admitVars, raceVars, evictVars,
              staleVars>>

\* The brokers a caller can pass: one constructed before, or one it
\* constructs for the call.
BrokerArgs == 1..Min(brokersMade + 1, MaxBrokers)

\* initializeSharedBroker(broker?): without an argument createBroker()
\* makes a new instance; the instance becomes the shared broker.
InitializeSharedBroker(b) ==
  /\ b \in {None} \cup {Some(x) : x \in BrokerArgs}
  /\ b = None => brokersMade < MaxBrokers
  /\ LET inst == IF b = None THEN brokersMade + 1 ELSE b[1] IN
       /\ sharedBroker' = Some(inst)
       /\ brokersMade' = IF inst > brokersMade THEN inst ELSE brokersMade
  /\ UNCHANGED <<sharedPositionManager, gotBroker, gotManager>>
  /\ BridgeFrame

\* getSharedBroker(): the shared broker, created first when there is none.
GetSharedBroker ==
  /\ sharedBroker = None => brokersMade < MaxBrokers
  /\ sharedBroker' = IF sharedBroker = None THEN Some(brokersMade + 1) ELSE sharedBroker
  /\ brokersMade' = IF sharedBroker = None THEN brokersMade + 1 ELSE brokersMade
  /\ gotBroker' = sharedBroker'
  /\ UNCHANGED <<sharedPositionManager, gotManager>>
  /\ BridgeFrame

\* initializeSharedPositionManager(broker): a new PositionManager over the
\* given broker becomes the shared one.
InitializeSharedPositionManager(b) ==
  /\ b \in BrokerArgs
  /\ sharedPositionManager' = Some([broker |-> b])
  /\ brokersMade' = IF b > brokersMade THEN b ELSE brokersMade
  /\ UNCHANGED <<sharedBroker, gotBroker, gotManager>>
  /\ BridgeFrame

\* getSharedPositionManager(): the shared manager, or, when there is none,
\* a new one over getSharedBroker().
GetSharedPositionManager ==
  /\ (sharedPositionManager = None /\ sharedBroker = None) => brokersMade < MaxBrokers
  /\ IF sharedPositionManager # None
       THEN UNCHANGED <<sharedBroker, sharedPositionManager, brokersMade>>
       ELSE /\ sharedBroker' = IF sharedBroker = None THEN Some(brokersMade + 1)
                               ELSE sharedBroker
            /\ brokersMade' = IF sharedBroker = None THEN brokersMade + 1 ELSE brokersMade
            /\ sharedPositionManager' = Some([broker |-> sharedBroker'[1]])
  /\ gotManager' = sharedPositionManager'
  /\ UNCHANGED gotBroker
  /\ BridgeFrame

\* resetSharedInstances()
ResetSharedInstances ==
  /\ sharedBroker' = None
  /\ sharedPositionManager' = None
  /\ UNCHANGED <<brokersMade, gotBroker, gotManager>>
  /\ BridgeFrame

\* ------------------------------- syncPositions, the answer and the resume
\* The exchange answers the getPositions of call i: what it holds now, or
\* an error that BinanceBroker.getPositions turns into []. The answer is
\* on its way to the process.
SyncAnswered(i) ==
  /\ syncCalls[i].st = "fetching"
  /\ syncReads[i] = None
  /\ \E ok \in BOOLEAN :
       syncReads' = [syncReads EXCEPT ![i] =
                       Some([seq |-> readCount + 1,
                             fetched |-> getPositionsCaught(ok, position,
                                                            syncCalls[i].symbols)])]
  /\ readCount' = readCount + 1
  /\ UNCHANGED cacheFrom
  /\ UNCHANGED <<brokerVars, toolVars, schedVars, guardVars, syncVars, auditVars, mockVars,
                 infoVars, exchangeVars, launchVars, admitVars, raceVars, evictVars,
                 bridgeVars>>

\* The answer of call i arrives and syncPositions resumes after its await:
\* the cache is evicted and filled from that answer, lastSyncTime becomes
\* the `now` the call read when it began. Answers arrive in any order.
SyncResumed(i) ==
  /\ syncCalls[i].st = "fetching"
  /\ syncReads[i] # None
  /\ pmPositions' = syncPositions(pmPositions, syncCalls[i].symbols, syncReads[i][1].fetched)
  /\ lastSyncTime' = syncCalls[i].at
  /\ syncCalls' = [syncCalls EXCEPT ![i].st = "fetched"]
  /\ cacheFrom' = syncReads[i][1].seq
  /\ UNCHANGED <<syncReads, readCount>>
  /\ UNCHANGED <<brokerVars, toolPc, toolArgs, toolResult, caller, schedVars, guardVars, now,
                 auditVars, mockVars, infoVars, exchangeVars, launchVars, admitVars, raceVars,
                 evictVars, bridgeVars>>

Init ==
  /\ pc = "idle"
  /\ params = NoParams
  /\ symbol = <<>>
  /\ orderAmount = 0
  /\ attempt = 0
  /\ order = None
  /\ stopLossOrderId = None
  /\ takeProfitOrderId = None
  /\ protectionFailed = FALSE
  /\ result = None
  /\ log = <<>>
  /\ position = [s \in NormSymbols |-> 0]
  /\ posAtCall = 0
  /\ toolPc = "idle"
  /\ toolArgs = NoToolArgs
  /\ toolResult = None
  /\ pmPositions = [s \in NormSymbols |-> None]
  /\ caller = 0
  /\ isRunning = FALSE
  /\ intervalId = None
  /\ runCount = 0
  /\ handlers = 0
  /\ exited = FALSE
  /\ cycle = [c \in 1..MaxCycles |-> "notStarted"]
  /\ guardIn = None
  /\ guardOut = None
  /\ now = StartTime
  /\ syncCalls = [i \in 1..MaxSyncCalls |-> NoSyncCall]
  /\ lastSyncTime = 0
  /\ agentRuns = [r \in 1..MaxRuns |-> NoRun]
  /\ auditCalls = [r \in 1..MaxRuns |-> [i \in 1..Len(AgentSymbols) |-> <<>>]]
  /\ logFiles = {}
  /\ dbRows = {}
  /\ mockPc = "idle"
  /\ mockParams = NoParams
  /\ mockResult = None
  /\ mockPositions = [k \in MockSymbols |-> None]
  /\ mockBefore = None
  /\ mockFetched = None
  /\ orderCounter = 1
  /\ infoPc = "idle"
  /\ infoArgs = {}
  /\ infoAt = 0
  /\ infoFetched = FALSE
  /\ infoBalance = None
  /\ infoPositions = None
  /\ infoAccount = None
  /\ infoResult = None
  /\ exLeverage = [k \in NormSymbols |-> 1]
  /\ launch = NoLaunch
  /\ startCalls = 0
  /\ admitIn = None
  /\ admitOut = None
  /\ openCalls = [i \in 1..MaxOpens |-> NoOpenCall]
  /\ evictIn = None
  /\ evictOut = None
  /\ sharedBroker = None
  /\ sharedPositionManager = None
  /\ brokersMade = 0
  /\ gotBroker = None
  /\ gotManager = None
  /\ syncReads = [i \in 1..MaxSyncCalls |-> None]
  /\ readCount = 0
  /\ cacheFrom = 0

\* One step of an in-flight BinanceBroker.placeOrder call.
BrokerStep ==
  \/ SetLeverageDone
  \/ SetMarginModeDone
  \/ FetchTickerDone
  \/ MainOrderDone
  \/ PlaceStopLossDone
  \/ PlaceStopLossWake
  \/ PlaceTakeProfitDone
  \/ PlaceTakeProfitWake
  \/ EmergencyCloseDone

\* One step of an in-flight placeOrderTool.execute call.
ToolStep ==
  \/ ToolPlaceOrderReturned
  \/ ToolForceSyncDone
  \/ ToolReturn

\* The broker called directly.
Next ==
  \/ \E p \in OrderParamsSet : DirectPlaceOrder(p)
  \/ BrokerStep
  \/ DirectPlaceOrderReturn

Spec == Init /\ [][Next]_vars

\* The broker called directly and through the tool.
ToolNext ==
  \/ \E p \in OrderParamsSet : DirectPlaceOrder(p)
  \/ BrokerStep
  \/ DirectPlaceOrderReturn
  \/ \E a \in ToolArgsSet : DirectToolCall(a)
  \/ ToolStep

ToolSpec == Init /\ [][ToolNext]_vars

\* The scheduler, its cycles, and the tool calls the cycles' agents make.
SchedNext ==
  \/ Start
  \/ Tick
  \/ Signal
  \/ \E c \in Cycles, a \in AgentToolArgs : AgentToolCall(c, a)
  \/ \E c \in Cycles : AgentRunReturns(c)
  \/ \E c \in Cycles : AgentRunThrows(c)
  \/ BrokerStep
  \/ ToolStep

SchedSpec == Init /\ [][SchedNext]_vars

\* The Risk Guard called on its own.
GuardNext ==
  \E sym \in GuardSymbols, cost \in GuardCosts, leverage \in GuardLeverages :
    Validate(sym, cost, leverage)

GuardSpec == Init /\ [][GuardNext]_vars

\* The Position Manager's syncs called on their own while the clock runs
\* and the exchange account moves.
SyncNext ==
  \/ \E i \in 1..MaxSyncCalls, syms \in SyncArgs : SyncPositionsCall(i, syms)
  \/ \E i \in 1..MaxSyncCalls, syms \in SyncArgs : ForceSyncCall(i, syms)
  \/ \E i \in 1..MaxSyncCalls : SyncFetched(i)
  \/ TimePasses
  \/ \E k \in NormSymbols, v \in {0 - 1, 0, 1} : ExchangeMoves(k, v)

SyncSpec == Init /\ [][SyncNext]_vars

\* One step of a run's processSymbol and of its audit logging.
AgentStep ==
  \/ \E r \in Runs, returned \in BOOLEAN : GenerateTextDone(r, returned)
  \/ \E r \in Runs, ok \in BOOLEAN : LogToFileDone(r, ok)
  \/ \E r \in Runs, ok \in BOOLEAN : LogToDatabaseDone(r, ok)
  \/ \E r \in Runs : AgentSleepDone(r)

\* The agent's runs, one after the other, while the clock runs.
AuditNext ==
  \/ \E r \in Runs : AgentRunInTurn(r)
  \/ AgentStep
  \/ TimePasses

AuditSpec == Init /\ [][AuditNext]_vars

\* The agent's runs when a cycle may outlast the scheduler's interval, so
\* that the next run begins while it is still going.
OverlapNext ==
  \/ \E r \in Runs : AgentRun(r)
  \/ AgentStep
  \/ TimePasses

OverlapSpec == Init /\ [][OverlapNext]_vars

\* The account-info tool called again and again while the clock runs and
\* the exchange account moves.
InfoNext ==
  \/ \E syms \in SyncArgs : AccountInfoCall(syms)
  \/ AccountInfoSynced
  \/ \E bal \in Balances : AccountInfoBalanceFetched(bal)
  \/ AccountInfoBalanceFailed
  \/ \E ok \in BOOLEAN : AccountInfoPositionsFetched(ok)
  \/ AccountInfoReturn
  \/ TimePasses
  \/ \E k \in NormSymbols, v \in {0 - 1, 0, 1} : ExchangeMoves(k, v)

InfoSpec == Init /\ [][InfoNext]_vars

\* The launcher started in every environment, and the scheduler it starts.
LaunchNext ==
  \/ \E env \in SUBSET Credentials, dev \in BOOLEAN, once \in BOOLEAN, mode \in TradingModes :
       Main(env, dev, once, mode)
  \/ RunOnceDone
  \/ Tick
  \/ Signal
  \/ \E c \in Cycles : AgentRunReturns(c)
  \/ \E c \in Cycles : AgentRunThrows(c)

LaunchSpec == Init /\ [][LaunchNext]_vars

\* execute called on every cache.
AdmitNext == \E a \in AdmitArgs, cache \in Caches : Admit(a, cache)

AdmitSpec == Init /\ [][AdmitNext]_vars

\* Opening tool calls that nothing keeps apart.
RaceNext ==
  \/ \E i \in 1..MaxOpens, a \in OpenArgs : OpenCall(i, a)
  \/ \E i \in 1..MaxOpens : OpenOrderDone(i)
  \/ \E i \in 1..MaxOpens : OpenSyncDone(i)

RaceSpec == Init /\ [][RaceNext]_vars

\* The simulation broker called on its own.
MockNext ==
  \/ \E p \in MockParams \cup MockCloseParams : MockPlaceOrderCall(p)
  \/ MockOrderPlaced
  \/ MockProtectionDone
  \/ \E syms \in {{}, {<<"BTC">>}, {<<"ETH", "USDT">>}} : MockGetPositions(syms)
  \/ MockReturn

MockSpec == Init /\ [][MockNext]_vars

\* syncPositions called on every cache, for every symbols argument.
EvictNext ==
  \E cache \in EvictCaches, syms \in EvictArgs, pos \in EvictAccounts, ok \in BOOLEAN :
    Resync(cache, syms, pos, ok)

EvictSpec == Init /\ [][EvictNext]_vars

\* The Position Manager's syncs over a broker whose getPositions may throw.
ThrowNext ==
  \/ SyncNext
  \/ \E i \in 1..MaxSyncCalls : SyncThrew(i)

ThrowSpec == Init /\ [][ThrowNext]_vars

\* The shared-instance functions called in any order.
BridgeNext ==
  \/ \E b \in {None} \cup {Some(x) : x \in 1..MaxBrokers} : InitializeSharedBroker(b)
  \/ GetSharedBroker
  \/ \E b \in 1..MaxBrokers : InitializeSharedPositionManager(b)
  \/ GetSharedPositionManager
  \/ ResetSharedInstances

BridgeSpec == Init /\ [][BridgeNext]_vars

\* The broker called directly, every exchange call and every sleep of an
\* in-flight placeOrder call coming to its end.
LiveSpec == Init /\ [][Next]_vars /\ WF_vars(BrokerStep)

\* The Position Manager's syncs, each answer of the exchange taking its
\* time to arrive, while the clock runs and the exchange account moves.
StaleNext ==
  \/ \E i \in 1..MaxSyncCalls, syms \in SyncArgs : SyncPositionsCall(i, syms)
  \/ \E i \in 1..MaxSyncCalls, syms \in SyncArgs : ForceSyncCall(i, syms)
  \/ \E i \in 1..MaxSyncCalls : SyncAnswered(i)
  \/ \E i \in 1..MaxSyncCalls : SyncResumed(i)
  \/ TimePasses
  \/ \E k \in NormSymbols, v \in {0 - 1, 0, 1} : ExchangeMoves(k, v)

StaleSpec == Init /\ [][StaleNext]_vars

\* =================================================================
\* Properties
\* =================================================================
\* Positions in the call's log of the requests of one kind.
Entries(kind) == {i \in 1..Len(log) : log[i].kind = kind}

Accepted(kind) == {i \in Entries(kind) : log[i].outcome = "ok"}

Rejected(kind) == {i \in Entries(kind) : log[i].outcome = "failed"}

\* A protective price is requested when it is given and is a price; the
\* code reads a price of 0 as no price.
Requested(x) == x # None /\ x[1] > 0

IsReduceOnly == params.reduceOnly = Some(TRUE)

Returned == pc = "returned"

MainAccepted == Accepted("main") # {}

MainAmount == log[CHOOSE i \in Entries("main") : TRUE].amount

\* The stop-loss the exchange accepted is the one the claim asks for.
ProperStopLoss(i) ==
  /\ log[i].type = "STOP_MARKET"
  /\ log[i].reduceOnly
  /\ log[i].symbol = normalizeSymbol(params.symbol)
  /\ log[i].amount = MainAmount

\* C1: every placeOrder call that is not reduce-only, specifies a stopLoss
\* and returns success=true has had a STOP_MARKET reduce-only order accepted
\* by the exchange for the same normalized symbol and exactly the amount of
\* the main order, or the position amount is zero.
C1_NoUnprotectedOpen ==
  (Returned /\ ~IsReduceOnly /\ Requested(params.stopLoss) /\ result[1].success)
    => \/ \E i \in Accepted("stopLoss") : ProperStopLoss(i)
       \/ position[normalizeSymbol(params.symbol)] = 0

C1_Witness ==
  /\ Returned /\ ~IsReduceOnly /\ Requested(params.stopLoss) /\ result[1].success
  /\ params.symbol = <<"BTC">>
  /\ Rejected("stopLoss") # {}
  /\ \E i \in Accepted("stopLoss") : ProperStopLoss(i)
  /\ position[normalizeSymbol(params.symbol)] # 0

\* ----------------------------------------------------------------- C2
\* The three outcomes of a protected open, as the claim states them.
AllRequestedProtectionAccepted ==
  /\ Requested(params.stopLoss) => Accepted("stopLoss") # {}
  /\ Requested(params.takeProfit) => Accepted("takeProfit") # {}

ClosedAndFlat ==
  /\ Accepted("emergencyClose") # {}
  /\ position[normalizeSymbol(params.symbol)] = 0

CriticalFailure ==
  /\ ~result[1].success
  /\ "CRITICAL" \in result[1].error[1].phrases

ExactlyOne(a, b, c) ==
  (a /\ ~b /\ ~c) \/ (~a /\ b /\ ~c) \/ (~a /\ ~b /\ c)

ProtectedSuccess ==
  /\ result[1].success
  /\ Requested(params.stopLoss) => Accepted("stopLoss") # {}
  /\ Requested(params.takeProfit) =>
       \/ Accepted("takeProfit") # {}
       \/ Cardinality(Rejected("takeProfit")) = maxRetries

ClosedFailure ==
  /\ ~result[1].success
  /\ Accepted("emergencyClose") # {}
  /\ posAtCall = 0 => position[normalizeSymbol(params.symbol)] = 0

AllStopLossAttemptsFailed ==
  /\ Returned
  /\ Entries("stopLoss") # {}
  /\ Accepted("stopLoss") = {}

\* The emergency close the claim describes: market, side opposite the
\* entry, the main order's amount, reduceOnly.
ProperEmergencyClose(i) ==
  /\ log[i].type = "market"
  /\ log[i].side = OppositeSide(params.side)
  /\ log[i].amount = MainAmount
  /\ log[i].reduceOnly
  /\ log[i].symbol = normalizeSymbol(params.symbol)

RollbackIssued ==
  /\ Cardinality(Entries("emergencyClose")) = 1
  /\ \A i \in Entries("emergencyClose") : ProperEmergencyClose(i)
  /\ ~result[1].success

ReportsClosed ==
  /\ "Position opened but protection orders failed" \in result[1].error[1].phrases
  /\ "Position was closed immediately for safety" \in result[1].error[1].phrases

ReportsCritical ==
  /\ "CRITICAL" \in result[1].error[1].phrases
  /\ "MANUAL INTERVENTION REQUIRED" \in result[1].error[1].phrases
  /\ result[1].error[1].orderId = order
  /\ order # None

Protective == {"stopLoss", "takeProfit"}

Settled(i) == log[i].outcome # "pending"

\* C4: within one placeOrder call the main order completes before any
\* stop-loss or take-profit attempt is submitted, the stop-loss attempts all
\* complete before any take-profit attempt (and come first when both are
\* requested), and every protective attempt and any emergency close has
\* completed when placeOrder returns its OrderResult.
C4_StepsInOrder ==
  /\ \A j \in 1..Len(log) :
       log[j].kind \in Protective \cup {"emergencyClose"}
         => \E i \in 1..(j - 1) : log[i].kind = "main" /\ log[i].outcome = "ok"
  /\ \A j \in Entries("takeProfit") :
       /\ \A i \in Entries("stopLoss") : i < j /\ Settled(i)
       /\ Requested(params.stopLoss) => Entries("stopLoss") # {}
  /\ \A j \in Entries("emergencyClose") :
       \A i \in Entries("stopLoss") \cup Entries("takeProfit") : i < j /\ Settled(i)
  /\ result # None => \A i \in 1..Len(log) : Settled(i)

C4_Witness ==
  /\ Returned
  /\ Cardinality(Entries("stopLoss")) = 2
  /\ Cardinality(Entries("takeProfit")) = 3
  /\ result[1].success

\* ----------------------------------------------------------------- C5
\* The rank of attempt i among the attempts of its kind.
AttemptNo(i) == Cardinality({j \in Entries(log[i].kind) : j <= i})

\* C5: each protective order is attempted at most 3 times and never again
\* after an accepted attempt; after failed attempt n (n = 1, 2) the broker
\* sleeps n*1000 ms before attempt n+1; it does not sleep before attempt 1
\* nor after a failed attempt 3.
C5_RetriesAndBackoff ==
  /\ \A k \in Protective :
       /\ Cardinality(Entries(k)) <= 3
       /\ \A i \in Accepted(k) : \A j \in Entries(k) : j <= i
  /\ \A i \in 1..Len(log) :
       log[i].kind \in Protective =>
         /\ AttemptNo(i) = 1 => log[i - 1].kind # "sleep"
         /\ AttemptNo(i) > 1 =>
              /\ log[i - 1].kind = "sleep"
              /\ log[i - 1].ms = (AttemptNo(i) - 1) * 1000
              /\ log[i - 2].kind = log[i].kind
              /\ log[i - 2].outcome = "failed"
         /\ (log[i].outcome = "failed" /\ AttemptNo(i) = 3 /\ i < Len(log))
              => log[i + 1].kind # "sleep"
  /\ \A i \in Entries("sleep") :
       /\ i > 1 /\ log[i - 1].kind \in Protective /\ log[i - 1].outcome = "failed"
       /\ AttemptNo(i - 1) \in {1, 2}

C5_Witness ==
  /\ Returned
  /\ Cardinality(Rejected("stopLoss")) = 2
  /\ Cardinality(Accepted("stopLoss")) = 1
  /\ Cardinality(Rejected("takeProfit")) = 3
  /\ Cardinality(Entries("sleep")) = 4

\* ----------------------------------------------------------------- C7
\* C7: if the stop-loss order was accepted and every take-profit attempt
\* fails, placeOrder returns success=true and issues no emergency close; if
\* the stop-loss fails exhaustively the rollback is issued whatever the
\* take-profit request, and no take-profit is attempted.
C7_TakeProfitNonCritical ==
  Returned =>
    /\ (Accepted("stopLoss") # {} /\ Entries("takeProfit") # {}
          /\ Accepted("takeProfit") = {})
         => (result[1].success /\ Entries("emergencyClose") = {})
    /\ (Entries("stopLoss") # {} /\ Accepted("stopLoss") = {})
         => /\ Cardinality(Entries("emergencyClose")) = 1
            /\ Entries("takeProfit") = {}
            /\ ~result[1].success

C7_Witness ==
  /\ Returned
  /\ Accepted("stopLoss") # {}
  /\ Cardinality(Rejected("takeProfit")) = maxRetries
  /\ result[1].success

\* ----------------------------------------------------------------- C6
IsClose(action) == action = "close_long" \/ action = "close_short"

NoProtectiveRequest ==
  Entries("stopLoss") \cup Entries("takeProfit") \cup Entries("emergencyClose") = {}

\* C6: a placeOrder call with reduceOnly=true never submits a stop-loss,
\* take-profit or emergency-close order, even when the request carries
\* stopLoss or takeProfit; and the tool's close_long / close_short never pass
\* stopLoss or takeProfit to the broker, even when the LLM supplies them.
C6_ReduceOnlyNeverProtects ==
  /\ IsReduceOnly => NoProtectiveRequest
  /\ (toolPc = "placing" /\ IsClose(toolArgs.action))
       => /\ params.stopLoss = None
          /\ params.takeProfit = None
          /\ IsReduceOnly

\* A close whose LLM arguments carried both prices has gone through.
C6_Witness ==
  /\ toolPc = "placing"
  /\ IsClose(toolArgs.action)
  /\ toolArgs.stopLoss # None
  /\ toolArgs.takeProfit # None
  /\ Returned
  /\ result[1].success
  /\ NoProtectiveRequest

\* ----------------------------------------------------------------- C8
\* placeOrder is past its accepted main order and has not yet returned.
InProtection ==
  /\ MainAccepted
  /\ pc \in {"stopLoss", "stopLossSleep", "takeProfit", "takeProfitSleep",
             "emergencyClose"}

\* C8: a placeOrder whose main order has been accepted reaches a terminal
\* state before the process unwinds, also when SIGINT/SIGTERM arrives during
\* the call: the process never exits between the acceptance of the main
\* order and the end of the protective-order and rollback steps.
C8_NoExitDuringProtection == exited => ~InProtection

\* ----------------------------------------------------------------- C9
\* C9: when a termination signal arrives while a trading cycle is in
\* progress, the cycle runs to completion before the process exits.
C9_NoExitDuringCycle == exited => \A c \in Cycles : cycle[c] # "running"

\* ---------------------------------------------------------------- C10
Started == {c \in Cycles : cycle[c] # "notStarted"}

Threw == {c \in Cycles : cycle[c] = "threw"}

\* C10: an exception thrown by agent.run never cancels the timer and never
\* marks the scheduler as not running: until the process is stopped the
\* timer stays armed and a tick can still start a cycle; runCount grows by
\* exactly one with each cycle started and equals the number of cycles
\* started.
C10_CycleExceptionKeepsScheduler ==
  /\ [](/\ (Threw # {} /\ ~exited)
             => /\ isRunning
                /\ intervalId # None
                /\ runCount < MaxCycles => ENABLED Tick
        /\ Started = 1..runCount
        /\ runCount = Cardinality(Started))
  /\ [][/\ runCount' >= runCount
        /\ Started \subseteq Started'
        /\ Started' # Started
             => /\ runCount' = runCount + 1
                /\ Started' = Started \cup {runCount'}
                /\ cycle'[runCount'] = "running"]_vars

\* Every cycle but the last threw, and a further cycle has been started.
C10_Witness ==
  /\ runCount = MaxCycles
  /\ \A c \in 1..(MaxCycles - 1) : cycle[c] = "threw"
  /\ cycle[MaxCycles] = "running"
  /\ isRunning
  /\ intervalId # None
  /\ ~exited

\* ---------------------------------------------------------------- C11
\* The three checks as the claim words them, on the triple validate was
\* given.
InWhitelist == normalizeSymbol(guardIn[1].symbol) \in symbolWhitelist

LeverageInRange ==
  /\ ~guardIn[1].leverage.nan
  /\ 1 <= guardIn[1].leverage.v
  /\ guardIn[1].leverage.v <= maxLeverage

CostInRange ==
  /\ ~guardIn[1].cost.nan
  /\ 0 < guardIn[1].cost.v
  /\ guardIn[1].cost.v <= maxCostPerTrade

FirstFailingCheck ==
  IF ~InWhitelist THEN "is not in whitelist"
  ELSE IF ~LeverageInRange THEN "Leverage exceeds limit"
  ELSE IF ~CostInRange THEN "Cost exceeds limit"
  ELSE ""

\* C11: validate returns allowed=true if and only if the normalized symbol
\* is in the whitelist and 1 <= leverage <= maxLeverage and
\* 0 < cost <= maxCostPerTrade, and a rejection reports the first failing
\* check in the order whitelist, leverage, cost.
C11_AllowedIffWithinLimits ==
  guardOut # None
    => /\ guardOut[1].allowed <=> (InWhitelist /\ LeverageInRange /\ CostInRange)
       /\ guardOut[1].reason = FirstFailingCheck

\* ---------------------------------------------------------------- C12
\* The tool ran the Risk Guard on the arguments and the guard rejected them.
GuardRejects(a) ==
  /\ IsOpen(a.action)
  /\ TruthyNum(a.cost)
  /\ TruthyNum(a.leverage)
  /\ ~validate(a.symbol, Num(a.cost[1]), Num(a.leverage[1])).allowed

\* C12: an open_long or open_short tool call that the Risk Guard rejects
\* returns {success:false, rejected:true} and makes no broker call
\* (placeOrder, setLeverage, getPositions) and no change to the broker's
\* positions or to the cache, from the call to the return of its result.
C12_RejectedMakesNoBrokerCall ==
  /\ [][(toolPc = "idle" /\ toolPc' # "idle" /\ GuardRejects(toolArgs'))
          => /\ toolPc' = "returned"
             /\ toolResult' # None
             /\ ~toolResult'[1].success
             /\ toolResult'[1].rejected
             /\ UNCHANGED <<brokerVars, pmPositions>>]_vars
  /\ [][(toolPc = "returned" /\ GuardRejects(toolArgs))
          => UNCHANGED <<brokerVars, pmPositions>>]_vars
  /\ []((toolPc # "idle" /\ GuardRejects(toolArgs))
          => (toolPc = "returned" /\ pc = "idle" /\ log = <<>>))

\* A rejected open on an account that holds a position.
C12_Witness ==
  /\ toolPc = "returned"
  /\ GuardRejects(toolArgs)
  /\ toolResult[1].rejected
  /\ normalizeSymbol(toolArgs.symbol) \in symbolWhitelist
  /\ \E k \in DOMAIN position : position[k] # 0
  /\ \E k \in DOMAIN pmPositions : pmPositions[k] # None

\* ---------------------------------------------------------------- C13
\* execute went through broker.placeOrder and has its result ready.
OrderCallReturned ==
  /\ toolPc = "returned"
  /\ toolResult # None
  /\ toolResult[1].error \in {"", "order error"}

\* The cached position of sym is the broker's: the same side and amount, or
\* none in both.
CacheMatchesBroker(sym) ==
  LET cached == getPosition(pmPositions, sym)
      held == position[normalizeSymbol(sym)]
  IN  IF held = 0
        THEN cached = None
        ELSE /\ cached # None
             /\ cached[1].side = (IF held > 0 THEN "long" ELSE "short")
             /\ cached[1].amount = Abs(held)

\* C13: after a tool call that placed or closed an order returns,
\* getPosition(symbol) equals the broker's position for the symbol.
C13_CacheMatchesAfterOrder ==
  OrderCallReturned => CacheMatchesBroker(toolArgs.symbol)

\* ---------------------------------------------------------------- C14
\* C14: for each of the four actions, whenever broker.placeOrder was called
\* the tool invokes forceSync([symbol]) after placeOrder has returned and
\* before its own result is returned, whether the order succeeded or failed:
\* execute leaves its placeOrder call only with the OrderResult in hand and
\* only into forceSync, and it reaches its return only from forceSync or
\* without having called the broker at all.
C14_ForceSyncAfterEveryOrder ==
  /\ [][(toolPc = "placing" /\ toolPc' # "placing")
          => (pc = "returned" /\ result # None /\ toolPc' = "syncing")]_vars
  /\ [][(toolPc # "syncing" /\ toolPc' = "syncing")
          => (toolPc = "placing" /\ toolArgs' = toolArgs)]_vars
  /\ [][(toolPc # "returned" /\ toolPc' = "returned")
          => \/ toolPc = "syncing" /\ toolArgs' = toolArgs
             \/ toolPc = "idle" /\ UNCHANGED brokerVars]_vars

\* A failed close has been synced and is about to be returned.
C14_Witness ==
  /\ OrderCallReturned
  /\ ~toolResult[1].success
  /\ toolArgs.action = "close_short"
  /\ CacheMatchesBroker(toolArgs.symbol)
  /\ getPosition(pmPositions, toolArgs.symbol) # None

\* ---------------------------------------------------------------- C15
SyncCallIds == 1..MaxSyncCalls

SyncStarted(i) == syncCalls[i].st # "notCalled"

\* Call i went on to broker.getPositions.
Fetches(i) == syncCalls[i].st \in {"fetching", "fetched"}

\* Calls i and j are syncPositions calls, j the later one, begun less than
\* syncCooldown after i, with no forceSync between them.
WithinCooldown(i, j) ==
  /\ i < j
  /\ SyncStarted(i) /\ SyncStarted(j)
  /\ \A k \in i..j : ~syncCalls[k].force
  /\ syncCalls[j].at - syncCalls[i].at < syncCooldown

\* C15: two syncPositions calls with no forceSync between them, the second
\* starting less than syncCooldown (5000 ms) after the first, make exactly
\* one broker fetch in total, and the second returns at the cooldown test
\* (leaving the cache and lastSyncTime as they were).
C15_OneFetchWithinCooldown ==
  \A i, j \in SyncCallIds :
    WithinCooldown(i, j)
      => /\ Cardinality({c \in {i, j} : Fetches(c)}) = 1
         /\ syncCalls[j].st = "skipped"

\* ---------------------------------------------------------------- C16
SymbolIds == 1..Len(AgentSymbols)

\* processSymbol for the i-th symbol of run r has returned.
Terminated(r, i) ==
  \/ agentRuns[r].idx > i
  \/ agentRuns[r].idx = i /\ agentRuns[r].st \in {"sleeping", "done"}

\* The session matches what the LLM driver did.
SessionMatches(session, r, i) ==
  /\ session.symbol = AgentSymbols[i]
  /\ IF agentRuns[r].outcomes[i] = "returned"
       THEN /\ session.success
            /\ session.reasoning = "result.text"
            /\ session.toolCalls = "result.toolCalls"
       ELSE /\ ~session.success
            /\ session.error = Some("error.message")

\* C16: every processSymbol invocation that terminates has called
\* logSession exactly once, with success=true, the reasoning and the tool
\* calls when the LLM driver returned and with success=false and the error
\* message when it threw; a run over n symbols that has returned has made
\* exactly n logSession calls. No invocation ever calls it twice.
C16_OneSessionPerSymbol ==
  \A r \in Runs :
    /\ \A i \in SymbolIds :
         /\ Len(auditCalls[r][i]) <= 1
         /\ Terminated(r, i)
              => /\ Len(auditCalls[r][i]) = 1
                 /\ SessionMatches(auditCalls[r][i][1], r, i)
    /\ agentRuns[r].st = "done"
         => /\ \A i \in SymbolIds : Len(auditCalls[r][i]) = 1
            /\ Len(agentRuns[r].outcomes) = Len(AgentSymbols)

\* A run has returned whose first symbol threw and whose second returned,
\* with nothing of the first session reaching the disk or the database.
C16_Witness ==
  /\ agentRuns[1].st = "done"
  /\ agentRuns[1].outcomes = <<"threw", "returned">>
  /\ ~auditCalls[1][1][1].success
  /\ auditCalls[1][2][1].success
  /\ \A f \in logFiles : f.content.idx # 1
  /\ \A row \in dbRows : row.idx # 1

\* ---------------------------------------------------------------- C18
\* The append attempts logSession made for the i-th symbol of run r.
AttemptsOf(r, i) == SelectSeq(agentRuns[r].attempts, LAMBDA a : a.idx = i)

Stored(r, i) == [run |-> r, idx |-> i, session |-> auditCalls[r][i][1]]

\* C18: logSession attempts both append targets, each on its own, and
\* never lets a failure out: whatever the file write did, the relational
\* write is attempted after it; a failed relational write leaves the file
\* written; and in each of the four combinations logSession returns
\* normally, so that processSymbol does not log again and the run goes on.
C18_BothTargetsAttempted ==
  \A r \in Runs, i \in SymbolIds :
    /\ (agentRuns[r].idx = i /\ agentRuns[r].st = "logToDatabase")
         => (Len(AttemptsOf(r, i)) = 1 /\ AttemptsOf(r, i)[1].target = "file")
    /\ Terminated(r, i)
         => /\ Len(AttemptsOf(r, i)) = 2
            /\ AttemptsOf(r, i)[1].target = "file"
            /\ AttemptsOf(r, i)[2].target = "database"
            /\ AttemptsOf(r, i)[1].ok
                 => \E f \in logFiles : f.content = Stored(r, i)
            /\ AttemptsOf(r, i)[2].ok <=> Stored(r, i) \in dbRows
            /\ Len(auditCalls[r][i]) = 1

\* A run has returned after a session whose file write failed and whose row
\* was created and a session whose file was written and whose row failed;
\* the next run is past a session that lost both.
C18_Witness ==
  /\ agentRuns[1].st = "done"
  /\ ~AttemptsOf(1, 1)[1].ok /\ AttemptsOf(1, 1)[2].ok
  /\ AttemptsOf(1, 2)[1].ok /\ ~AttemptsOf(1, 2)[2].ok
  /\ Terminated(2, 1)
  /\ ~AttemptsOf(2, 1)[1].ok /\ ~AttemptsOf(2, 1)[2].ok

\* ---------------------------------------------------------------- C17
\* logToFile wrote the session of the i-th symbol of run r.
FileWritten(r, i) ==
  /\ Len(AttemptsOf(r, i)) >= 1
  /\ AttemptsOf(r, i)[1].ok

\* C17: audit records are append-only: no logSession call overwrites the
\* file record an earlier logSession call wrote, two distinct sessions
\* never sharing a file path: every session once written is still on disk.
C17_NoRecordOverwritten ==
  \A r \in Runs, i \in SymbolIds :
    FileWritten(r, i) => \E f \in logFiles : f.content = Stored(r, i)

\* ---------------------------------------------------------------- C19
\* The order that has returned was a success on the side opposite to the
\* position the symbol held.
ClosingOrderSucceeded ==
  /\ mockPc = "returned"
  /\ mockResult # None
  /\ mockResult[1].success
  /\ mockBefore # None
  /\ IF mockBefore[1].side = "long" THEN mockParams.side = "sell"
                                    ELSE mockParams.side = "buy"

\* C19: in the simulation broker a successful order on the side opposite to
\* the symbol's position, the reduce-only full-amount order of close_long /
\* close_short included, closes the position: the entry is deleted and a
\* later getPositions does not report the symbol.
C19_OppositeOrderCloses ==
  ClosingOrderSucceeded
    => /\ mockPositions[normalizeSymbol(mockParams.symbol)] = None
       /\ mockFetched # None
            => \A f \in mockFetched[1] : f.symbol # normalizeSymbol(mockParams.symbol)

\* ---------------------------------------------------------------- C20
\* The call is a close_long or close_short and the cache holds no position
\* of the side it closes for the symbol (none at all, or the other side).
NothingToClose(a, cache) ==
  /\ ~IsOpen(a.action)
  /\ \/ getPosition(cache, a.symbol) = None
     \/ getPosition(cache, a.symbol)[1].side # ClosedSide(a.action)

\* execute has returned the missing-position error.
ReturnedNoPosition ==
  /\ toolPc = "returned"
  /\ toolResult # None
  /\ toolResult[1].error = NoPositionFound(toolArgs.action)

\* C20: a close_long tool call when the cached position of the symbol is
\* absent or short (close_short: absent or long) returns {success:false}
\* with the error naming the missing position, and makes no broker call and
\* no change to the Position Manager cache, from the call to the return of
\* its result.
C20_CloseWithoutPositionReturnsError ==
  /\ [][(toolPc = "idle" /\ toolPc' # "idle" /\ NothingToClose(toolArgs', pmPositions))
          => /\ toolPc' = "returned"
             /\ toolResult' # None
             /\ ~toolResult'[1].success
             /\ toolResult'[1].error = NoPositionFound(toolArgs'.action)
             /\ UNCHANGED <<brokerVars, pmPositions, lastSyncTime>>]_vars
  /\ [][ReturnedNoPosition => UNCHANGED <<brokerVars, pmPositions, lastSyncTime>>]_vars
  /\ [](ReturnedNoPosition
          => /\ ~IsOpen(toolArgs.action)
             /\ ~toolResult[1].success
             /\ NothingToClose(toolArgs, pmPositions)
             /\ pc = "idle")

\* close_long has returned its error while the cache holds a short position
\* of the symbol, and the account holds that short.
C20_Witness ==
  /\ ReturnedNoPosition
  /\ toolArgs.action = "close_long"
  /\ getPosition(pmPositions, toolArgs.symbol) # None
  /\ getPosition(pmPositions, toolArgs.symbol)[1].side = "short"
  /\ position[normalizeSymbol(toolArgs.symbol)] < 0

\* ---------------------------------------------------------------- C21
\* The tool is past its sync step.
InfoSynced == infoPc \in {"fetchBalance", "getPositions", "returned"}

\* C21: every getAccountInfo tool invocation force-syncs the given symbols:
\* it fetches their positions from the broker whatever the sync cooldown,
\* also when another sync happened less than 5000 ms earlier.
C21_AccountInfoAlwaysFetches == InfoSynced => infoFetched

\* ---------------------------------------------------------------- C22
\* fetchBalance of the getAccountInfo call threw.
BalanceFailed == infoAccount # None /\ infoBalance = None

\* fetchPositions of the getAccountInfo call's getPositions threw.
PositionsFailed == infoPositions # None /\ ~infoPositions[1].ok

\* getPositions never throws, returns [] when fetchPositions failed, and
\* never returns a position of amount zero; getAccountInfo never throws.
NeverThrowsNoZeroAmount ==
  /\ PositionsFailed => infoPositions[1].positions = {}
  /\ infoPositions # None => \A f \in infoPositions[1].positions : f.amount # 0
  /\ infoAccount # None => ~infoAccount[1].threw
  /\ infoResult # None => infoResult[1].success

\* C22 as stated: getPositions and getAccountInfo never throw; when an
\* exchange call fails getPositions returns the empty sequence and
\* getAccountInfo the all-zero snapshot; getPositions never returns a
\* position whose amount is zero.
C22_AsStated ==
  /\ NeverThrowsNoZeroAmount
  /\ (BalanceFailed \/ (infoAccount # None /\ PositionsFailed))
       => infoAccount[1].value = ZeroAccount

\* C22, amended: getPositions and getAccountInfo never throw; getPositions
\* returns the empty sequence when fetchPositions fails and never a position
\* whose amount is zero; getAccountInfo returns the all-zero snapshot when
\* fetchBalance fails, and when only its inner fetchPositions fails it
\* returns the snapshot of the fetched balance with totalPnL 0.
C22_NeverThrowZeroOnBalanceFailure ==
  /\ NeverThrowsNoZeroAmount
  /\ BalanceFailed => infoAccount[1].value = ZeroAccount
  /\ (infoAccount # None /\ PositionsFailed)
       => infoAccount[1].value =
            [balance |-> infoBalance[1].free + infoBalance[1].used,
             usedMargin |-> infoBalance[1].used,
             availableMargin |-> infoBalance[1].free,
             totalPnL |-> 0,
             totalMargin |-> infoBalance[1].used]

\* getAccountInfo has returned a snapshot that is not all-zero although its
\* fetchPositions failed while the account holds a position.
C22_Witness ==
  /\ infoPc = "returned"
  /\ PositionsFailed
  /\ infoAccount[1].value # ZeroAccount
  /\ \E k \in DOMAIN position : position[k] # 0

\* ---------------------------------------------------------------- C23
\* What placeOrder does once both setters have settled, whatever their
\* outcome: it submits the main order of the given amount, fetches the
\* ticker, or returns the sizing error.
ProceedsToSizing(i) ==
  CASE Sizing(params) = "main" ->
         /\ Len(log) > i
         /\ log[i + 1].kind = "main"
         /\ log[i + 1].amount = params.amount[1]
    [] Sizing(params) = "fetchTicker" ->
         /\ Len(log) > i
         /\ log[i + 1].kind = "fetchTicker"
         /\ (Len(log) > i + 1 => log[i + 2].kind = "main")
    [] OTHER -> Len(log) = i /\ result = Some(Failure(ErrSizing))

\* C23: a failure of setLeverage or setMarginMode on the exchange never
\* aborts a placeOrder call: after a settled setLeverage, failed or not,
\* comes setMarginMode, and after a settled setMarginMode, failed or not,
\* the call goes on to sizing and to the main order; the result is never
\* the failure of a setter.
C23_SetterFailureNeverAborts ==
  /\ \A i \in Entries("setLeverage") :
       log[i].outcome # "pending"
         => Len(log) > i /\ log[i + 1].kind = "setMarginMode"
  /\ \A i \in Entries("setMarginMode") :
       log[i].outcome # "pending" => ProceedsToSizing(i)
  /\ (result # None /\ log # <<>> /\ log[Len(log)].kind \in {"setLeverage", "setMarginMode"})
       => result = Some(Failure(ErrSizing))

\* Both setters failed and the call went on: the main order was accepted
\* and the call returned success.
C23_Witness ==
  /\ pc = "returned"
  /\ result[1].success
  /\ \E i \in Entries("setLeverage") : log[i].outcome = "failed"
  /\ \E i \in Entries("setMarginMode") : log[i].outcome = "failed"
  /\ Accepted("main") # {}

\* ---------------------------------------------------------------- C24
\* C24: for every placeOrder call that specifies a leverage, the broker
\* calls setLeverage with that leverage and setMarginMode before the main
\* order is submitted, so the leverage in force on the exchange for the
\* symbol when the main order is placed is the requested one, never a value
\* left over from an earlier order.
C24_LeverageReappliedPerOrder ==
  \A j \in Entries("main") :
    TruthyNum(params.leverage)
      => /\ \E i \in Entries("setLeverage"), m \in Entries("setMarginMode") :
              i < m /\ m < j /\ log[i].amount = params.leverage[1]
         /\ exLeverage[symbol] = params.leverage[1]

\* ---------------------------------------------------------------- C25
\* C25: if the ticker fetch or the main order creation fails, placeOrder
\* returns success=false with the error message, the failed request is the
\* last thing the call did, the main order is submitted at most once, and no
\* stop-loss, take-profit or emergency-close order is submitted.
C25_MainFailureSurfaces ==
  \A i \in Entries("fetchTicker") \cup Entries("main") :
    log[i].outcome = "failed"
      => /\ pc = "returned"
         /\ result = Some(Failure(ErrExchange))
         /\ Len(log) = i
         /\ Cardinality(Entries("main")) <= 1
         /\ Entries("stopLoss") \cup Entries("takeProfit") \cup Entries("emergencyClose") = {}
         /\ position[symbol] = posAtCall

\* The ticker was fetched and the main order of a call that asked for a
\* stop-loss was refused.
C25_Witness ==
  /\ pc = "returned"
  /\ ~result[1].success
  /\ Accepted("fetchTicker") # {}
  /\ \E i \in Entries("main") : log[i].outcome = "failed"
  /\ TruthyNum(params.stopLoss)
  /\ ~TruthyBool(params.reduceOnly)

\* ---------------------------------------------------------------- C26
\* C26: calling Scheduler.start() while the scheduler is running is a no-op:
\* it starts no cycle, installs no second timer and no further signal
\* handlers and leaves runCount unchanged; a first start() executes one
\* cycle at once and then installs exactly one periodic timer.
C26_StartIsIdempotent ==
  /\ [][(startCalls' = startCalls + 1 /\ isRunning) => UNCHANGED schedVars]_vars
  /\ [][(startCalls' = startCalls + 1 /\ ~isRunning)
          => /\ isRunning'
             /\ runCount' = runCount + 1
             /\ cycle'[runCount'] = "running"
             /\ \A c \in Cycles \ {runCount'} : cycle'[c] = cycle[c]
             /\ intervalId = None
             /\ intervalId' = Some(startCalls')
             /\ handlers' = handlers + 1]_vars
  /\ [](intervalId \in {None, Some(1)})
  /\ [](handlers <= 1)

\* start() was called a second time while the first cycle was still running.
C26_Witness ==
  /\ startCalls = 2
  /\ isRunning
  /\ runCount = 1
  /\ cycle[1] = "running"
  /\ intervalId = Some(1)
  /\ handlers = 1

\* ---------------------------------------------------------------- C27
\* The credentials a non-mock run needs: the exchange's key and secret, and
\* the key of the provider of the agent's model (deepseekR1, an OpenRouter
\* model).
RequiredCredentials == {"BINANCE_API_KEY", "BINANCE_API_SECRET", "OPENROUTER_API_KEY"}

Launched == launch.pc # "notStarted"

\* C27: at startup, when the broker mode is not mock and an exchange or LLM
\* credential is missing, the process exits with code 1 before any broker is
\* created and before the scheduler starts or any cycle runs; in mock mode
\* (--dev) missing credentials never cause exit code 1.
C27_MissingCredentialExits ==
  /\ (Launched /\ brokerModeOf(launch.dev, launch.mode) # "mock"
        /\ ~(RequiredCredentials \subseteq launch.env))
       => /\ launch.exitCode = Some(1)
          /\ launch.broker = ""
          /\ ~isRunning /\ runCount = 0 /\ startCalls = 0
  /\ (Launched /\ brokerModeOf(launch.dev, launch.mode) = "mock")
       => launch.exitCode # Some(1)

\* C27 for the credentials main() tests: in a non-mock run without the
\* exchange's key or secret, or without any of the two LLM keys, the process
\* exits with code 1 before a broker is created or a cycle runs, and a mock
\* run never exits with code 1.
C27_CheckedCredentialExits ==
  /\ (Launched /\ brokerModeOf(launch.dev, launch.mode) # "mock"
        /\ (~({"BINANCE_API_KEY", "BINANCE_API_SECRET"} \subseteq launch.env)
              \/ launch.env \cap {"DEEPSEEK_API_KEY", "OPENROUTER_API_KEY"} = {}))
       => /\ launch.exitCode = Some(1)
          /\ launch.broker = ""
          /\ ~isRunning /\ runCount = 0 /\ startCalls = 0
  /\ (Launched /\ brokerModeOf(launch.dev, launch.mode) = "mock")
       => launch.exitCode # Some(1)

\* ---------------------------------------------------------------- C28
\* The cache of the checked call holds no position for the normalized
\* symbol and fewer than maxPositions (5) positions.
AdmissionHolds ==
  /\ normalizeSymbol(admitIn[1].args.symbol) \in DOMAIN admitIn[1].cache
       => admitIn[1].cache[normalizeSymbol(admitIn[1].args.symbol)] = None
  /\ Cardinality({k \in DOMAIN admitIn[1].cache : admitIn[1].cache[k] # None}) < 5

\* The checked call is an open that passed the argument and risk checks.
ReachesAdmission ==
  /\ IsOpen(admitIn[1].args.action)
  /\ TruthyNum(admitIn[1].args.cost)
  /\ TruthyNum(admitIn[1].args.leverage)
  /\ ~GuardRejects(admitIn[1].args)

\* C28: an open_long or open_short tool call submits an order to the broker
\* only if canOpenPosition allowed it, that is only if at the time of the
\* check the cache holds no position for the normalized symbol and fewer
\* than maxPositions (5) positions; when denied the tool returns
\* {success:false, error} and makes no broker call.
C28_OpensOnlyWhenAdmitted ==
  (admitIn # None /\ IsOpen(admitIn[1].args.action))
    => /\ admitOut[1].order # None => AdmissionHolds
       /\ (ReachesAdmission /\ ~AdmissionHolds)
            => /\ admitOut[1].order = None
               /\ admitOut[1].result # None
               /\ ~admitOut[1].result[1].success
               /\ admitOut[1].result[1].error = "Cannot open position"
       /\ (ReachesAdmission /\ AdmissionHolds) => admitOut[1].order # None

\* An open for a symbol the cache holds nothing for was denied because the
\* cache holds five positions.
C28_Witness ==
  /\ admitIn # None
  /\ ReachesAdmission
  /\ getPosition(admitIn[1].cache, admitIn[1].args.symbol) = None
  /\ Cardinality({k \in DOMAIN admitIn[1].cache : admitIn[1].cache[k] # None}) = 5
  /\ admitOut[1].order = None
  /\ admitOut[1].result[1].error = "Cannot open position"

\* ---------------------------------------------------------------- C29
\* The cycles whose agent.run has not finished.
InProgress == {c \in Cycles : cycle[c] = "running"}

\* C29: at most one trading cycle is in progress at any time: the scheduler
\* never starts a cycle while a previous cycle's agent.run has not finished,
\* whatever the ratio between cycle duration and intervalMs.
C29_OneCycleAtATime == Cardinality(InProgress) <= 1

\* ---------------------------------------------------------------- C30
\* The opening calls for symbol k that are between their admission check
\* and the end of their forceSync.
OpensInFlight(k) ==
  {i \in 1..MaxOpens : /\ openCalls[i].st \in {"placing", "syncing"}
                       /\ normalizeSymbol(openCalls[i].args.symbol) = k}

\* C30: for any symbol, the sequence admission check, broker.placeOrder,
\* forceSync of one opening action is never interleaved with another opening
\* action's admission check for the same symbol: two open orders for the
\* same symbol are never both submitted on the basis of the same pre-trade
\* cache state.
C30_OpensSerializedPerSymbol ==
  \A k \in NormSymbols : Cardinality(OpensInFlight(k)) <= 1

\* ----------------------------------------------------------------- C31
\* The tool has an opening order in flight at the broker.
ToolOpening == toolPc = "placing" /\ IsOpen(toolArgs.action)

\* C31: position limits are enforced at the broker: the placeOrder tool
\* never submits an opening order for a symbol on which the broker holds an
\* open position, whatever the Position Manager's cache holds. (posAtCall
\* is the exchange's position on the order's symbol when placeOrder was
\* called.)
C31_LimitsEnforcedAtBroker == ToolOpening => posAtCall = 0

\* ----------------------------------------------------------------- C32
\* The normalized symbols a sync was asked for.
Asked(syms) == {normalizeSymbol(x) : x \in syms}

\* The cache entry a fetched position becomes.
Inserted(f) == Some([side |-> f.side, amount |-> f.amount])

\* C32: a sync given a non-empty symbols list leaves the cached position
\* of every symbol outside the (normalized) list as it was and evicts the
\* listed ones before inserting what was fetched; a sync given no symbols
\* clears the whole cache before inserting: afterwards the cache holds
\* the fetched positions and, of the old entries, only unlisted ones.
C32_SyncEvictsOnlyGivenSymbols ==
  evictOut # None =>
    LET in == evictIn[1]
        out == evictOut[1] IN
      /\ \A f \in in.fetched : out[f.symbol] = Inserted(f)
      /\ \A k \in DOMAIN out :
           (\A f \in in.fetched : f.symbol # k) =>
             out[k] = IF in.symbols # {} /\ k \notin Asked(in.symbols)
                        THEN in.cache[k]
                        ELSE None

\* A sync for BTC evicted the cached BTC/USDT position the exchange no
\* longer holds and kept the cached SOL/USDT position.
C32_Witness ==
  /\ evictOut # None
  /\ evictIn[1].symbols = {<<"BTC">>}
  /\ evictIn[1].cache[<<"BTC", "USDT">>] # None
  /\ evictOut[1][<<"BTC", "USDT">>] = None
  /\ evictIn[1].cache[<<"SOL", "USDT">>] # None
  /\ evictOut[1][<<"SOL", "USDT">>] = evictIn[1].cache[<<"SOL", "USDT">>]

\* ----------------------------------------------------------------- C33
\* The sync's fetchPositions failed (BinanceBroker.getPositions caught it).
FetchFailed == evictOut # None /\ ~evictIn[1].ok

\* C33: a failed exchange position fetch during a sync never evicts a
\* cached position: after such a sync the cache still holds every position
\* it held before, so canOpenPosition admits no symbol it denied before.
C33_FailedFetchEvictsNothing ==
  FetchFailed =>
    \A k \in DOMAIN evictOut[1] :
      evictIn[1].cache[k] # None => evictOut[1][k] = evictIn[1].cache[k]

\* ----------------------------------------------------------------- C34
\* Call i's broker.getPositions threw in this step.
ThrowsNow(i) == syncCalls[i].st = "fetching" /\ syncCalls'[i].st # "fetching"
                /\ syncCalls'[i].st # "fetched"

\* No fetch of a sync call has succeeded so far.
NoFetchSucceeded == \A i \in 1..MaxSyncCalls : syncCalls[i].st # "fetched"

\* C34: when broker.getPositions throws during syncPositions or forceSync,
\* the call still resolves (its state is "caught": the catch ran and the
\* function returned), the cached positions and lastSyncTime are as they
\* were, and so, as long as no fetch has succeeded, no cooldown is running
\* and the next syncPositions call fetches.
C34_ThrowLeavesCacheAndCooldown ==
  /\ [][\A i \in 1..MaxSyncCalls :
          ThrowsNow(i) => /\ syncCalls'[i].st = "caught"
                          /\ pmPositions' = pmPositions
                          /\ lastSyncTime' = lastSyncTime]_vars
  /\ [](NoFetchSucceeded => lastSyncTime = 0 /\ ~SyncSkips(now, lastSyncTime))

\* A syncPositions call whose fetch threw, and after it a syncPositions
\* call that went on to fetch.
C34_Witness ==
  \E i, n \in 1..MaxSyncCalls :
     /\ i < n
     /\ syncCalls[i].st = "caught" /\ ~syncCalls[i].force
     /\ syncCalls[n].st = "fetching" /\ ~syncCalls[n].force
     /\ NoFetchSucceeded

\* ----------------------------------------------------------------- C35
\* Entry i of the log mirrors the main order m: opposite side, reduce-only,
\* the same normalized symbol and the same amount.
Mirrors(i, m) ==
  /\ log[i].side = OppositeSide(log[m].side)
  /\ log[i].side # log[m].side
  /\ log[i].reduceOnly
  /\ log[i].symbol = log[m].symbol
  /\ log[i].symbol = normalizeSymbol(params.symbol)
  /\ log[i].amount = log[m].amount

\* C35: every stop-loss, take-profit and emergency-close order placeOrder
\* submits comes after the call's main order, has the side opposite to the
\* entry side, carries reduceOnly = true, targets the main order's
\* normalized symbol and has exactly the main order's amount.
C35_ProtectiveOrdersMirrorMain ==
  \A i \in Entries("stopLoss") \cup Entries("takeProfit") \cup Entries("emergencyClose") :
    \E m \in Entries("main") : m < i /\ Mirrors(i, m)

\* A sell entry given as "BTC" whose stop-loss and take-profit were both
\* submitted.
C35_Witness ==
  /\ params.symbol = <<"BTC">>
  /\ params.side = "sell"
  /\ Entries("stopLoss") # {}
  /\ Entries("takeProfit") # {}
  /\ \A i \in Entries("stopLoss") \cup Entries("takeProfit") : log[i].side = "buy"

\* ----------------------------------------------------------------- C36
\* C36: placeOrder never submits a market order for a request whose type
\* is limit: the main order of a limit request is a limit order at the
\* requested price, and a limit request without a price submits no order.
C36_LimitNeverSentAsMarket ==
  params.type = "limit" =>
    /\ \A i \in Entries("main") : log[i].type = "limit" /\ log[i].price = params.price
    /\ ~TruthyNum(params.price) => Entries("main") = {}

\* The limit requests that carry a price are submitted as limit orders at
\* that price.
C36_PricedLimitSentAsLimit ==
  params.type = "limit" /\ TruthyNum(params.price) =>
    \A i \in Entries("main") : log[i].type = "limit" /\ log[i].price = params.price

\* ----------------------------------------------------------------- C37
\* Where a run can stand: run never rejects.
RunStates == {"notCalled", "generating", "logToFile", "logToDatabase", "sleeping", "done"}

\* Run r steps from one symbol to the next in this step.
NextSymbol(r) == agentRuns'[r].idx # agentRuns[r].idx

\* C37: in one agent.run(symbols) every symbol of the list is processed
\* exactly once and in list order; processSymbol of one symbol has
\* finished, both audit writes attempted, before processSymbol of the next
\* begins; a throwing LLM driver (a failing tool throws through it) for one
\* symbol never keeps the following symbols from being processed, and run
\* never throws.
C37_SymbolsInOrderOnceEach ==
  /\ [](\A r \in Runs :
          /\ agentRuns[r].st \in RunStates
          /\ Len(agentRuns[r].outcomes) <= Len(AgentSymbols)
          /\ \A i \in SymbolIds :
               /\ Len(auditCalls[r][i]) <= 1
               /\ auditCalls[r][i] # <<>> => auditCalls[r][i][1].symbol = AgentSymbols[i]
               /\ i < agentRuns[r].idx => Len(AttemptsOf(r, i)) = 2
               /\ i > agentRuns[r].idx => auditCalls[r][i] = <<>>
          /\ agentRuns[r].st = "done"
               => /\ Len(agentRuns[r].outcomes) = Len(AgentSymbols)
                  /\ \A i \in SymbolIds : Len(AttemptsOf(r, i)) = 2)
  /\ [][\A r \in Runs :
          NextSymbol(r) =>
            /\ agentRuns'[r].idx = agentRuns[r].idx + 1
            /\ agentRuns'[r].st = "generating"
            /\ agentRuns[r].idx >= 1 =>
                 /\ agentRuns[r].st = "sleeping"
                 /\ Len(AttemptsOf(r, agentRuns[r].idx)) = 2]_vars

\* A run has returned although the LLM driver threw for its first symbol
\* and for its second: both symbols were processed, each logged once.
C37_Witness ==
  /\ agentRuns[1].st = "done"
  /\ agentRuns[1].outcomes = <<"threw", "threw">>
  /\ auditCalls[1][1][1].symbol = AgentSymbols[1]
  /\ auditCalls[1][2][1].symbol = AgentSymbols[2]

\* ----------------------------------------------------------------- C38
\* C38: after any sequence of calls of the shared-instance functions, the
\* broker the shared Position Manager uses is the same instance as the
\* shared broker.
C38_ManagerUsesSharedBroker ==
  (sharedPositionManager # None /\ sharedBroker # None)
    => sharedPositionManager[1].broker = sharedBroker[1]

\* ----------------------------------------------------------------- C39
\* The requests of one kind the call has submitted so far.
Submitted(kind) == Cardinality(Entries(kind))

\* C39: every exchange call returning or throwing in the end, every
\* placeOrder call returns an OrderResult in the end (it never throws: it
\* returns success or a failure with an error), having submitted at most
\* one main order, at most 3 stop-loss attempts, at most 3 take-profit
\* attempts and at most one emergency close.
C39_PlaceOrderTerminates ==
  /\ [](/\ Submitted("main") <= 1
        /\ Submitted("stopLoss") <= maxRetries
        /\ Submitted("takeProfit") <= maxRetries
        /\ Submitted("emergencyClose") <= 1)
  /\ [](pc = "returned" =>
          /\ result # None
          /\ result[1].success \in BOOLEAN
          /\ ~result[1].success => result[1].error # None)
  /\ (pc # "idle") ~> (pc = "returned")

\* A call has returned after one main order, three failed stop-loss
\* attempts and one emergency close.
C39_Witness ==
  /\ pc = "returned"
  /\ result # None
  /\ Submitted("main") = 1
  /\ Submitted("stopLoss") = maxRetries
  /\ Submitted("emergencyClose") = 1

\* ----------------------------------------------------------------- C40
\* C40: if two position syncs overlap, the cache ends up holding the
\* result of the later broker read: no sync that has written the cache
\* read the broker after the read the cache now holds, so the result of an
\* earlier read never overwrites the result of a later one.
C40_LaterReadWins ==
  \A i \in 1..MaxSyncCalls :
    syncCalls[i].st = "fetched" => syncReads[i][1].seq <= cacheFrom

====================================================================
